---- MODULE Spec2Model ----
(***************************************************************************)
(* tiny-regex-c (tre_* single-header revision): the pattern compiler       *)
(* tre_compile and the backtracking matcher tre_match / matchpattern /     *)
(* matchquant / matchquant_lazy, as a state machine over a caller-owned    *)
(* tre_comp storage (Spec); as a second machine with a second storage and  *)
(* two threads inside tre_match (SpecCalls); with a byte copy of the       *)
(* tre_comp (SpecCopy); on runs as long as the quantifier ceilings         *)
(* (SpecLong); and with one call of tre_match taken statement by           *)
(* statement (SpecRun).  Bytes are numbers 0..255; 0 is the string         *)
(* terminator.  A C string is a sequence of non-zero bytes; index i of the *)
(* C string is element i+1 of the sequence, and every index at or past the *)
(* length reads the terminator.                                            *)
(***************************************************************************)
EXTENDS Integers, Sequences, FiniteSets, TLC

VARIABLES
    pattern,  \* the pattern string handed to tre_compile
    text,     \* the text handed to tre_match
    junk,     \* the byte the caller's storage holds before tre_compile
    pc,       \* "init", "compiled" or "matched"
    nodes,    \* tregex->nodes
    buffer,   \* tregex->buffer
    ret,      \* the return value of tre_compile
    pat_i,    \* tre_compile's index into the pattern when it returned
    node_j,   \* tre_compile's index into the nodes when it returned
    oob,      \* tre_compile stored outside tregex->buffer
    m,        \* the match start returned by tre_match, NULL for no match
    mend,     \* the match end stored through tre_match's end pointer
    other,    \* a second tre_comp of the caller and the pattern compiled into it
    calls,    \* the tre_match calls in progress on the first tre_comp, by thread
    run       \* a call of tre_match taken statement by statement

vars ==
    <<pattern, text, junk, pc, nodes, buffer, ret, pat_i, node_j, oob, m, mend,
      other, calls, run>>

(***************************************************************************)
(* Capacities and ceilings of the build.                                   *)
(***************************************************************************)
TRE_MAX_NODES == 64
TRE_MAX_BUFLEN == 128
TRE_MAXQUANT == 1024
TRE_MAXPLUS == 40000

\* value of a failed match: the null pointer returned by the matcher
NULL == 0 - 1

\* ASCII codes of the bytes the patterns and texts are made of
Code ==
    ("^" :> 94) @@ ("$" :> 36) @@ ("." :> 46) @@ ("*" :> 42) @@ ("+" :> 43) @@
    ("?" :> 63) @@ ("\\" :> 92) @@ ("[" :> 91) @@ ("]" :> 93) @@ ("{" :> 123) @@
    ("}" :> 125) @@ ("," :> 44) @@ ("-" :> 45) @@ ("_" :> 95) @@ (" " :> 32) @@
    ("\t" :> 9) @@ ("\n" :> 10) @@ ("\r" :> 13) @@ ("\f" :> 12) @@
    ("0" :> 48) @@ ("1" :> 49) @@ ("2" :> 50) @@ ("3" :> 51) @@ ("4" :> 52) @@
    ("5" :> 53) @@ ("6" :> 54) @@ ("7" :> 55) @@ ("8" :> 56) @@ ("9" :> 57) @@
    ("a" :> 97) @@ ("b" :> 98) @@ ("c" :> 99) @@ ("d" :> 100) @@ ("s" :> 115) @@
    ("w" :> 119) @@ ("x" :> 120) @@ ("y" :> 121) @@ ("z" :> 122) @@
    ("A" :> 65) @@ ("D" :> 68) @@ ("S" :> 83) @@ ("W" :> 87) @@ ("Z" :> 90)

\* the character literals of the source, by their ASCII codes
CARET == 94
DOLLAR == 36
PERIOD == 46
ASTERISK == 42
PLUS_SIGN == 43
QUESTION == 63
BACKSLASH == 92
LBRACKET == 91
RBRACKET == 93
LBRACE == 123
RBRACE == 125
COMMA == 44
HYPHEN == 45
UNDERSCORE == 95
BLANK == 32
TAB == 9
NEWLINE == 10
RETURN == 13
FORMFEED == 12
VTAB == 11
DIGIT_0 == 48
DIGIT_9 == 57
LOWER_A == 97
LOWER_Z == 122
UPPER_A == 65
UPPER_Z == 90
LOWER_D == 100
UPPER_D == 68
LOWER_S == 115
UPPER_S == 83
LOWER_W == 119
UPPER_W == 87

\* the C string written as the sequence of one-character strings s
Str(s) == [k \in 1..Len(s) |-> Code[s[k]]]

\* str[i] of a C string: the terminator at and after the end
At(str, i) == IF i < Len(str) THEN str[i + 1] ELSE 0

\* a byte read through a (signed) char lvalue
SChar(b) == IF b >= 128 THEN b - 256 ELSE b

\* a char stored into an unsigned char
UChar(c) == c % 256

(***************************************************************************)
(* unsigned long val: 64 bits, kept as four 16-bit limbs, least            *)
(* significant first, so that 10 * val + digit wraps as the machine does.  *)
(***************************************************************************)
Limb == 65536

ULongZero == <<0, 0, 0, 0>>

ULongOf(n) == <<n % Limb, n \div Limb, 0, 0>>

\* val = 10 * val + d, modulo 2^64
MulAdd10(val, d) ==
    LET t0 == 10 * val[1] + d
        t1 == 10 * val[2] + (t0 \div Limb)
        t2 == 10 * val[3] + (t1 \div Limb)
        t3 == 10 * val[4] + (t2 \div Limb)
    IN  <<t0 % Limb, t1 % Limb, t2 % Limb, t3 % Limb>>

\* val > n, for n < 2^31
ULongGT(val, n) ==
    \/ val[3] # 0
    \/ val[4] # 0
    \/ val[2] * Limb + val[1] > n

\* val < n, for n < 2^16
ULongLT(val, n) == val[4] = 0 /\ val[3] = 0 /\ val[2] = 0 /\ val[1] < n

\* (unsigned short) val
UShort(val) == val[1]

(***************************************************************************)
(* tre_compile                                                             *)
(***************************************************************************)
TRE_ISMETA(c) ==
    c \in {LOWER_S, UPPER_S, LOWER_W, UPPER_W, LOWER_D, UPPER_D}

TRE_ISMETA_ESC(c) == TRE_ISMETA(c) \/ c = BACKSLASH

TRE_ISMETA_NUL(c) == TRE_ISMETA(c) \/ c = 0

IsDigitChar(c) == c >= DIGIT_0 /\ c <= DIGIT_9

\* buf[idx] = b; a store at or past TRE_MAX_BUFLEN is outside the array and
\* is recorded in oob
BufStore(st, idx, b) ==
    IF idx < TRE_MAX_BUFLEN
    THEN [st EXCEPT !.buf[idx] = UChar(b)]
    ELSE [st EXCEPT !.oob = TRUE]

Fail(st) == [st EXCEPT !.err = TRUE]

\* the body of the loop that copies the characters inside [..] to the buffer
RECURSIVE ClassLoop(_, _)
ClassLoop(p, st0) ==
    LET st == [st0 EXCEPT !.i = @ + 1]
        i == st.i
    IN  IF At(p, i) = RBRACKET \/ At(p, i) = 0 THEN st
        ELSE
        IF At(p, i) = BACKSLASH /\ At(p, i + 1) = 0 THEN Fail(st)
        ELSE IF At(p, i) = BACKSLASH /\ TRE_ISMETA_ESC(At(p, i + 1))
        THEN IF st.bufidx > TRE_MAX_BUFLEN - 3 THEN Fail(st)
             ELSE ClassLoop(p,
                    [BufStore(BufStore(st, st.bufidx, At(p, i)),
                              st.bufidx + 1, At(p, i + 1))
                       EXCEPT !.i = i + 1, !.bufidx = @ + 2])
        ELSE
        LET k == IF At(p, i) = BACKSLASH THEN i + 1 ELSE i  \* skip slash
        IN  IF /\ At(p, k + 1) = HYPHEN
               /\ At(p, k + 2) # 0
               /\ At(p, k + 2) # RBRACKET
               /\ ~(At(p, k + 2) = BACKSLASH /\ TRE_ISMETA_NUL(At(p, k + 3)))
            THEN LET rstart == At(p, k)
                     e == k + (IF At(p, k) = BACKSLASH THEN 3 ELSE 2)
                 IN  IF SChar(rstart) > SChar(At(p, e)) THEN Fail([st EXCEPT !.i = e])
                     ELSE IF st.bufidx > TRE_MAX_BUFLEN - 4 THEN Fail([st EXCEPT !.i = e])
                     ELSE ClassLoop(p,
                            [BufStore(BufStore(BufStore(st, st.bufidx, rstart),
                                               st.bufidx + 1, HYPHEN),
                                      st.bufidx + 2, At(p, e))
                               EXCEPT !.i = e, !.bufidx = @ + 3])
            ELSE IF st.bufidx > TRE_MAX_BUFLEN - 2 THEN Fail([st EXCEPT !.i = k])
                 ELSE ClassLoop(p,
                        [BufStore(st, st.bufidx, At(p, k))
                           EXCEPT !.i = k, !.bufidx = @ + 1])

\* case '[': a class or negated class, its content copied to the buffer
CompileClass(p, st0) ==
    LET neg == At(p, st0.i + 1) = CARET
        buf_begin == st0.bufidx
        st1 == [st0 EXCEPT !.ischar = 1,
                           !.nodes[st0.j].type = IF neg THEN "NCLASS" ELSE "CLASS",
                           !.i = IF neg THEN @ + 1 ELSE @]
        st2 == ClassLoop(p, st1)
    IN  IF st2.err THEN st2
        ELSE IF At(p, st2.i) # RBRACKET THEN Fail(st2)
        ELSE [BufStore(st2, st2.bufidx, 0)
                EXCEPT !.bufidx = @ + 1, !.nodes[st0.j].ccl = buf_begin]

\* do { digit check; val = 10 * val + digit } while (not ',' and not '}')
RECURSIVE ParseMin(_, _, _)
ParseMin(p, i, val) ==
    IF ~IsDigitChar(At(p, i)) THEN [err |-> TRUE, i |-> i, val |-> val]
    ELSE LET v == MulAdd10(val, At(p, i) - DIGIT_0)
         IN  IF At(p, i + 1) # COMMA /\ At(p, i + 1) # RBRACE
             THEN ParseMin(p, i + 1, v)
             ELSE [err |-> FALSE, i |-> i + 1, val |-> v]

\* while (pattern[i] != '}') { digit check; val = 10 * val + digit }
RECURSIVE ParseMax(_, _, _)
ParseMax(p, i, val) ==
    IF At(p, i) = RBRACE THEN [err |-> FALSE, i |-> i, val |-> val]
    ELSE IF ~IsDigitChar(At(p, i)) THEN [err |-> TRUE, i |-> i, val |-> val]
    ELSE ParseMax(p, i + 1, MulAdd10(val, At(p, i) - DIGIT_0))

\* tnode[j].type = (pattern[i + 1] == '?') ? (i++, TRE_LQUANT) : TRE_QUANT;
\* tnode[j].mn[1] = val; with i at the closing brace
QuantType(p, st, i, val) ==
    IF At(p, i + 1) = QUESTION
    THEN [st EXCEPT !.i = i + 1, !.nodes[st.j].type = "LQUANT",
                    !.nodes[st.j].mn[1] = UShort(val)]
    ELSE [st EXCEPT !.i = i, !.nodes[st.j].type = "QUANT",
                    !.nodes[st.j].mn[1] = UShort(val)]

\* the checks of a maximum that was written out: its digits, the ceiling
\* and the minimum stored in the node
QuantMaxChecked(p, st, pmax) ==
    IF pmax.err THEN Fail([st EXCEPT !.i = pmax.i])
    ELSE IF \/ ULongGT(pmax.val, TRE_MAXQUANT)
            \/ ULongLT(pmax.val, st.nodes[st.j].mn[0])
    THEN Fail([st EXCEPT !.i = pmax.i])
    ELSE QuantType(p, st, pmax.i, pmax.val)

\* the open range {m,} without val = TRE_MAXQUANT: val stays the minimum
QuantMax_OpenKeepsMin(p, st, val) ==
    IF At(p, st.i) = COMMA
    THEN IF At(p, st.i + 1) = RBRACE
         THEN QuantType(p, st, st.i + 1, val)
         ELSE QuantMaxChecked(p, st, ParseMax(p, st.i + 1, ULongZero))
    ELSE QuantType(p, st, st.i, val)

\* if (pattern[i] == ',') { ... }: val is still the minimum without a comma,
\* TRE_MAXQUANT for an open range, the parsed maximum otherwise
QuantMax(p, st, val) ==
    IF At(p, st.i) = COMMA
    THEN IF At(p, st.i + 1) = RBRACE
         THEN QuantType(p, st, st.i + 1, ULongOf(TRE_MAXQUANT))
         ELSE QuantMaxChecked(p, st, ParseMax(p, st.i + 1, ULongZero))
    ELSE QuantType(p, st, st.i, val)

\* the checks of the minimum and its store in the node
QuantMin(p, st, pmin) ==
    IF pmin.err \/ ULongGT(pmin.val, TRE_MAXQUANT)
    THEN Fail([st EXCEPT !.i = pmin.i])
    ELSE QuantMax(p, [st EXCEPT !.i = pmin.i, !.nodes[st.j].mn[0] = UShort(pmin.val)],
                  pmin.val)

\* case '{': the bounds of a quantifier, stored in the node
CompileQuant(p, st0) ==
    IF st0.ischar = 0 THEN Fail(st0)
    ELSE QuantMin(p, [st0 EXCEPT !.ischar = 0], ParseMin(p, st0.i + 1, ULongZero))

\* the case without its test of ischar
CompileSuffix_Unchecked(p, st, greedy, lazy) ==
    IF At(p, st.i + 1) = QUESTION
    THEN [st EXCEPT !.ischar = 0, !.nodes[st.j].type = lazy, !.i = @ + 1]
    ELSE [st EXCEPT !.ischar = 0, !.nodes[st.j].type = greedy]

\* case '*', '+', '?': greedy is the type written without the lazy suffix
CompileSuffix(p, st, greedy, lazy) ==
    IF st.ischar = 0 THEN Fail(st)
    ELSE IF At(p, st.i + 1) = QUESTION
         THEN [st EXCEPT !.ischar = 0, !.nodes[st.j].type = lazy, !.i = @ + 1]
         ELSE [st EXCEPT !.ischar = 0, !.nodes[st.j].type = greedy]

\* case '\\': a shorthand class or an escaped literal
CompileEscape(p, st0) ==
    LET st == [st0 EXCEPT !.ischar = 1, !.i = @ + 1]
        c == At(p, st.i)
        j == st.j
    IN  IF c = 0 THEN Fail(st)
        ELSE IF c = LOWER_D THEN [st EXCEPT !.nodes[j].type = "DIGIT"]
        ELSE IF c = UPPER_D THEN [st EXCEPT !.nodes[j].type = "NDIGIT"]
        ELSE IF c = LOWER_W THEN [st EXCEPT !.nodes[j].type = "ALPHA"]
        ELSE IF c = UPPER_W THEN [st EXCEPT !.nodes[j].type = "NALPHA"]
        ELSE IF c = LOWER_S THEN [st EXCEPT !.nodes[j].type = "SPACE"]
        ELSE IF c = UPPER_S THEN [st EXCEPT !.nodes[j].type = "NSPACE"]
        ELSE [st EXCEPT !.nodes[j].type = "CHAR", !.nodes[j].ch = UChar(c)]

\* the switch on the current pattern character
CompileChar(p, st) ==
    LET c == At(p, st.i)
        j == st.j
    IN  IF c = CARET THEN [st EXCEPT !.ischar = 0, !.nodes[j].type = "BEGIN"]
        ELSE IF c = DOLLAR THEN [st EXCEPT !.ischar = 0, !.nodes[j].type = "END"]
        ELSE IF c = PERIOD THEN [st EXCEPT !.ischar = 1, !.nodes[j].type = "DOT"]
        ELSE IF c = ASTERISK THEN CompileSuffix(p, st, "STAR", "LSTAR")
        ELSE IF c = PLUS_SIGN THEN CompileSuffix(p, st, "PLUS", "LPLUS")
        ELSE IF c = QUESTION THEN CompileSuffix(p, st, "QMARK", "LQMARK")
        ELSE IF c = BACKSLASH THEN CompileEscape(p, st)
        ELSE IF c = LBRACKET THEN CompileClass(p, st)
        ELSE IF c = LBRACE THEN CompileQuant(p, st)
        ELSE [st EXCEPT !.ischar = 1, !.nodes[j].type = "CHAR", !.nodes[j].ch = UChar(c)]

\* the loop condition of the compile loop: there is a pattern character left
\* and a node left for it besides the sentinel
CompileMore(p, st) == At(p, st.i) # 0 /\ st.j + 1 < TRE_MAX_NODES

RECURSIVE CompileLoop(_, _)

\* the compile loop without the store of the sentinel after it
CompileLoop_NoSentinel(p, st) ==
    IF CompileMore(p, st)
    THEN LET s2 == CompileChar(p, st)
         IN  IF s2.err THEN s2
             ELSE CompileLoop(p, [s2 EXCEPT !.i = @ + 1, !.j = @ + 1])
    ELSE st

\* while (pattern[i] != '\0' && (j + 1 < TRE_MAX_NODES)) { ...; i += 1; j += 1; }
\* tnode[j].type = TRE_NONE;
CompileLoop(p, st) ==
    IF CompileMore(p, st)
    THEN LET s2 == CompileChar(p, st)
         IN  IF s2.err THEN s2
             ELSE CompileLoop(p, [s2 EXCEPT !.i = @ + 1, !.j = @ + 1])
    ELSE [st EXCEPT !.nodes[st.j].type = "NONE"]

\* tre_compile without the test of *pattern: the empty pattern enters the
\* compile loop
tre_compile_NoEmptyTest(p, nodes0, buf0) ==
    CompileLoop(p, [i |-> 0, j |-> 0, ischar |-> 0, bufidx |-> 0,
                    nodes |-> nodes0, buf |-> buf0, err |-> FALSE, oob |-> FALSE])

\* tre_compile(pattern, tregex) on storage holding nodes0 and buf0:
\* err is the failure return, nodes and buf the storage afterwards
tre_compile(p, nodes0, buf0) ==
    LET st0 == [i |-> 0, j |-> 0, ischar |-> 0, bufidx |-> 0,
                nodes |-> nodes0, buf |-> buf0, err |-> FALSE, oob |-> FALSE]
    IN  IF Len(p) = 0 THEN Fail(st0) ELSE CompileLoop(p, st0)

(***************************************************************************)
(* The character predicates and the class interpreter.  c is the text byte *)
(* as the char the matcher reads it.                                       *)
(***************************************************************************)
TRE_MATCHDIGIT(c) == c >= DIGIT_0 /\ c <= DIGIT_9

TRE_MATCHALPHA(c) ==
    (c >= LOWER_A /\ c <= LOWER_Z) \/ (c >= UPPER_A /\ c <= UPPER_Z)

TRE_MATCHSPACE(c) ==
    c \in {BLANK, TAB, NEWLINE, RETURN, FORMFEED, VTAB}

TRE_MATCHALNUM(c) == c = UNDERSCORE \/ TRE_MATCHALPHA(c) \/ TRE_MATCHDIGIT(c)

TRE_MATCHDOT(c) == c # NEWLINE /\ c # RETURN

\* mc is the meta letter as a char
matchmetachar(c, mc) ==
    IF mc = LOWER_D THEN TRE_MATCHDIGIT(c)
    ELSE IF mc = UPPER_D THEN ~TRE_MATCHDIGIT(c)
    ELSE IF mc = LOWER_W THEN TRE_MATCHALNUM(c)
    ELSE IF mc = UPPER_W THEN ~TRE_MATCHALNUM(c)
    ELSE IF mc = LOWER_S THEN TRE_MATCHSPACE(c)
    ELSE IF mc = UPPER_S THEN ~TRE_MATCHSPACE(c)
    ELSE c = mc

\* buf[k], the terminator when the class string runs off the buffer's end
BufAt(buf, k) == IF k < TRE_MAX_BUFLEN THEN buf[k] ELSE 0

\* str is the offset in buf of the class string
RECURSIVE matchcharclass(_, _, _)
matchcharclass(c, buf, str) ==
    IF BufAt(buf, str) = 0 THEN FALSE
    ELSE IF BufAt(buf, str) = BACKSLASH
    THEN \/ matchmetachar(c, SChar(BufAt(buf, str + 1)))
         \/ matchcharclass(c, buf, str + 2)
    ELSE IF BufAt(buf, str + 1) = HYPHEN /\ BufAt(buf, str + 2) # 0
    THEN \/ (c >= BufAt(buf, str) /\ c <= BufAt(buf, str + 2))
         \/ matchcharclass(c, buf, str + 3)
    ELSE \/ c = BufAt(buf, str)
         \/ matchcharclass(c, buf, str + 1)

matchone(tnode, buf, c) ==
    CASE tnode.type = "DOT" -> TRE_MATCHDOT(c)
      [] tnode.type = "CLASS" -> matchcharclass(c, buf, tnode.ccl)
      [] tnode.type = "NCLASS" -> ~matchcharclass(c, buf, tnode.ccl)
      [] tnode.type = "DIGIT" -> TRE_MATCHDIGIT(c)
      [] tnode.type = "NDIGIT" -> ~TRE_MATCHDIGIT(c)
      [] tnode.type = "ALPHA" -> TRE_MATCHALNUM(c)
      [] tnode.type = "NALPHA" -> ~TRE_MATCHALNUM(c)
      [] tnode.type = "SPACE" -> TRE_MATCHSPACE(c)
      [] tnode.type = "NSPACE" -> ~TRE_MATCHSPACE(c)
      [] OTHER -> tnode.ch = c

(***************************************************************************)
(* The backtracking matcher.  rx is the compiled pattern [nodes, buf], t   *)
(* the text, n the index of the node tnode points at, and a text pointer   *)
(* is its offset from the start of t.                                      *)
(***************************************************************************)
\* the atom test that also takes the terminator: matchone(tnode, *text) on
\* the bytes of the text and on the terminator after them
AtomAt_TakesTerminator(rx, t, n, p) ==
    p <= Len(t) /\ matchone(rx.nodes[n], rx.buf, SChar(At(t, p)))

\* *text && matchone(tnode, *text)
AtomAt(rx, t, n, p) ==
    At(t, p) # 0 /\ matchone(rx.nodes[n], rx.buf, SChar(At(t, p)))

\* the loop without its count: while (*text && matchone(tnode, *text))
Consume_Uncapped(rx, t, n, p, cnt) ==
    LET r == CHOOSE r \in 0..(Len(t) + 1) :
                 /\ ~AtomAt(rx, t, n, p + r)
                 /\ \A q \in 0..(r - 1) : AtomAt(rx, t, n, p + q)
    IN  [text |-> p + r, cnt |-> cnt - r]

\* while (cnt && *text && matchone(tnode, *text)) { text++; cnt--; }
\* gives the text pointer and the count left.  The loop runs r times, r the
\* least number with r = cnt or no atom at text + r.  No run passes the
\* terminator, so r is at most the length of the text, also for an
\* unsigned cnt that was decremented below zero.
Consume(rx, t, n, p, cnt) ==
    LET lim == IF cnt < 0 \/ cnt > Len(t) THEN Len(t) + 1 ELSE cnt
        r == CHOOSE r \in 0..lim :
                 /\ r = cnt \/ ~AtomAt(rx, t, n, p + r)
                 /\ \A q \in 0..(r - 1) : AtomAt(rx, t, n, p + q)
    IN  [text |-> p + r, cnt |-> cnt - r]

RECURSIVE matchpattern(_, _, _, _)

\* the backtrack loop with while (text - start > min)
GreedyLoop_Strict(rx, t, n, start, p, min) ==
    LET last == p - start - min - 1
    IN  IF \E d \in 0..last : matchpattern(rx, t, n + 2, p - d) # NULL
        THEN LET d == CHOOSE d \in 0..last :
                          /\ matchpattern(rx, t, n + 2, p - d) # NULL
                          /\ \A e \in 0..(d - 1) : matchpattern(rx, t, n + 2, p - e) = NULL
             IN  matchpattern(rx, t, n + 2, p - d)
        ELSE NULL

\* the loop of matchquant_lazy without its count:
\* while (*text && matchone(tnode, *text++))
LazyLoop_Uncapped(rx, t, n, p, max) ==
    LET top == Consume_Uncapped(rx, t, n, p, max - 1).text
    IN  IF \E q \in p..top : matchpattern(rx, t, n + 2, q) # NULL
        THEN LET q == CHOOSE q \in p..top :
                          /\ matchpattern(rx, t, n + 2, q) # NULL
                          /\ \A e \in p..(q - 1) : matchpattern(rx, t, n + 2, e) = NULL
             IN  matchpattern(rx, t, n + 2, q)
        ELSE NULL

\* do { end = matchpattern(tnode + 2, text); if (end) return end; max--; }
\* while (max && *text && matchone(tnode, *text++));
\* The rest of the program is tried at text, text + 1, ... as long as the
\* atom matches the byte stepped over and max has not reached zero, that
\* is up to top, max - 1 atoms on; the loop returns at the first position
\* where the rest matches.
LazyLoop(rx, t, n, p, max) ==
    LET top == Consume(rx, t, n, p, max - 1).text
    IN  IF \E q \in p..top : matchpattern(rx, t, n + 2, q) # NULL
        THEN LET q == CHOOSE q \in p..top :
                          /\ matchpattern(rx, t, n + 2, q) # NULL
                          /\ \A e \in p..(q - 1) : matchpattern(rx, t, n + 2, e) = NULL
             IN  matchpattern(rx, t, n + 2, q)
        ELSE NULL

\* matchquant_lazy with max = max - min in place of max - min + 1
matchquant_lazy_OneShort(rx, t, n, p, min, max) ==
    LET c == Consume(rx, t, n, p, min)
    IN  IF c.cnt # 0 THEN NULL
        ELSE LazyLoop(rx, t, n, c.text, max - min)

matchquant_lazy(rx, t, n, p, min, max) ==
    LET c == Consume(rx, t, n, p, min)
    IN  IF c.cnt # 0 THEN NULL
        ELSE LazyLoop(rx, t, n, c.text, max - min + 1)

\* while (text - start >= min)
\* { end = matchpattern(tnode + 2, text--); if (end) return end; }
\* The rest of the program is tried at text, text - 1, ... down to
\* start + min, after d = 0, 1, ... steps back; the loop returns at the
\* first position where the rest matches.  text - start and min are
\* compared as signed numbers, as they are where ptrdiff_t is wider than
\* unsigned.
GreedyLoop(rx, t, n, start, p, min) ==
    LET last == p - start - min
    IN  IF \E d \in 0..last : matchpattern(rx, t, n + 2, p - d) # NULL
        THEN LET d == CHOOSE d \in 0..last :
                          /\ matchpattern(rx, t, n + 2, p - d) # NULL
                          /\ \A e \in 0..(d - 1) : matchpattern(rx, t, n + 2, p - e) = NULL
             IN  matchpattern(rx, t, n + 2, p - d)
        ELSE NULL

\* matchquant whose first loop has no count: while (*text && matchone(...))
matchquant_ConsumesAll(rx, t, n, p, min, max) ==
    GreedyLoop(rx, t, n, p, Consume_Uncapped(rx, t, n, p, max).text, min)

\* matchquant with while (text - start >= 0): the rest of the pattern is
\* tried after fewer than min repetitions too
matchquant_IgnoresMin(rx, t, n, p, min, max) ==
    GreedyLoop(rx, t, n, p, Consume(rx, t, n, p, max).text, 0)

matchquant(rx, t, n, p, min, max) ==
    GreedyLoop(rx, t, n, p, Consume(rx, t, n, p, max).text, min)

\* the min and the max that the switch of matchpattern hands to matchquant
\* or matchquant_lazy for the quantifier node q
SwitchMin(q) ==
    CASE q.type \in {"QMARK", "LQMARK", "STAR", "LSTAR"} -> 0
      [] q.type \in {"PLUS", "LPLUS"} -> 1
      [] OTHER -> q.mn[0]

SwitchMax(q) ==
    CASE q.type \in {"QMARK", "LQMARK"} -> 1
      [] q.type \in {"STAR", "LSTAR", "PLUS", "LPLUS"} -> TRE_MAXPLUS
      [] OTHER -> q.mn[1]

matchpattern(rx, t, n, p) ==
    LET t0 == rx.nodes[n].type
        t1 == rx.nodes[n + 1].type
    IN  CASE t0 = "NONE" -> p
          [] t0 = "END" /\ t1 = "NONE" -> (IF At(t, p) = 0 THEN p ELSE NULL)
          [] t1 \in {"QMARK", "QUANT", "STAR", "PLUS"} ->
                matchquant(rx, t, n, p, SwitchMin(rx.nodes[n + 1]), SwitchMax(rx.nodes[n + 1]))
          [] t1 \in {"LQMARK", "LQUANT", "LSTAR", "LPLUS"} ->
                matchquant_lazy(rx, t, n, p, SwitchMin(rx.nodes[n + 1]),
                                SwitchMax(rx.nodes[n + 1]))
          [] AtomAt(rx, t, n, p) -> matchpattern(rx, t, n + 1, p + 1)
          [] OTHER -> NULL

RECURSIVE ScanLoop(_, _, _)

\* the scan loop returning the text pointer after its increment
ScanLoop_ReturnsNext(rx, t, p) ==
    LET e == matchpattern(rx, t, 0, p)
    IN  IF e # NULL THEN [m |-> p + 1, mend |-> e]
        ELSE IF At(t, p) # 0 THEN ScanLoop(rx, t, p + 1)
        ELSE [m |-> NULL, mend |-> NULL]

\* the scan loop with while (*++text): the offset of the terminator is not
\* tried
ScanLoop_StopsBeforeEnd(rx, t, p) ==
    LET e == matchpattern(rx, t, 0, p)
    IN  IF e # NULL THEN [m |-> p, mend |-> e]
        ELSE IF At(t, p + 1) # 0 THEN ScanLoop(rx, t, p + 1)
        ELSE [m |-> NULL, mend |-> NULL]

\* the scan loop with the test of the early revision, if (!*text) return 0,
\* on a match: a match that starts at the terminator is rejected
ScanLoop_RejectsAtTerminator(rx, t, p) ==
    LET e == matchpattern(rx, t, 0, p)
    IN  IF e # NULL
        THEN IF At(t, p) = 0 THEN [m |-> NULL, mend |-> NULL]
             ELSE [m |-> p, mend |-> e]
        ELSE IF At(t, p) # 0 THEN ScanLoop(rx, t, p + 1)
        ELSE [m |-> NULL, mend |-> NULL]

\* do { mend = matchpattern(nodes, text); if (mend) return text; }
\* while (*text++);
ScanLoop(rx, t, p) ==
    LET e == matchpattern(rx, t, 0, p)
    IN  IF e # NULL THEN [m |-> p, mend |-> e]
        ELSE IF At(t, p) # 0 THEN ScanLoop(rx, t, p + 1)
        ELSE [m |-> NULL, mend |-> NULL]

\* tre_match that skips a leading begin-anchor and scans every offset
tre_match_ScansAnchored(rx, t) ==
    IF rx.nodes[0].type = "BEGIN"
    THEN ScanLoop([rx EXCEPT !.nodes =
                      [k \in DOMAIN rx.nodes |->
                          IF k + 1 \in DOMAIN rx.nodes THEN rx.nodes[k + 1]
                          ELSE rx.nodes[k]]], t, 0)
    ELSE ScanLoop(rx, t, 0)

\* tre_match(tregex, text, &end): m is the returned match start (NULL for no
\* match) and mend the end stored through the end pointer
tre_match(rx, t) ==
    IF rx.nodes[0].type = "BEGIN"
    THEN LET e == matchpattern(rx, t, 1, 0)
         IN  IF e # NULL THEN [m |-> 0, mend |-> e]
             ELSE [m |-> NULL, mend |-> NULL]
    ELSE ScanLoop(rx, t, 0)

(***************************************************************************)
(* The inputs: patterns and texts.                                         *)
(***************************************************************************)
MaxPatLen == 3
MaxTextLen == 3
MaxQuant == 4
MaxRun == 5

Repeat(c, k) == [x \in 1..k |-> Code[c]]

RECURSIVE Digits(_)
Digits(n) ==
    IF n < 10 THEN <<48 + n>> ELSE Digits(n \div 10) \o <<48 + (n % 10)>>

\* every string over the plain alphabet, up to MaxPatLen characters
ShortPatterns ==
    UNION {[1..k -> {Code[c] : c \in {"a", "b", "^", "$", "*", "+", "?"}}] :
           k \in 1..MaxPatLen}

\* the numbers written between braces: the small ones and the ceiling
GoodNumbers == {Digits(k) : k \in 0..MaxQuant} \cup {Digits(TRE_MAXQUANT)}

\* the ceiling plus one, 2^64 + 1, a number with leading zeros, and two
\* that are no numbers
OddNumbers ==
    {Digits(TRE_MAXQUANT + 1),
     Str(<<"1", "8", "4", "4", "6", "7", "4", "4", "0", "7",
           "3", "7", "0", "9", "5", "5", "1", "6", "1", "7">>),
     Str(<<"0", "0", "2">>), Str(<<"x">>), <<>>}

BraceBodies ==
    GoodNumbers \cup OddNumbers
    \cup {a \o Str(<<",">>) : a \in GoodNumbers \cup OddNumbers}
    \cup {a \o Str(<<",">>) \o b : a \in GoodNumbers, b \in GoodNumbers \cup OddNumbers}
    \cup {a \o Str(<<",", "2">>) : a \in OddNumbers}

\* an atom with a brace quantifier, greedy or lazy, alone or anchored or
\* followed by more of the pattern, and the brace groups left open
QuantPatterns ==
    {pre \o Str(<<"a", "{">>) \o body \o close \o suf :
        pre \in {<<>>, Str(<<"^">>)},
        body \in BraceBodies,
        close \in {Str(<<"}">>), Str(<<"}", "?">>)},
        suf \in {<<>>, Str(<<"$">>), Str(<<"a">>)}}
    \cup {Str(<<"a", "{">>) \o body : body \in BraceBodies}

\* the patterns of the documented scenarios
ExamplePatterns ==
    {Str(<<"[", "0", "-", "9", "]", "{", "2", ",", "3", "}">>),
     Str(<<"\\", "d", "\\", "s", "\\", "w", "+">>),
     Str(<<"a", "*", "?", "?">>), Str(<<"a", "{", "2", "}", "{", "3", "}">>),
     Str(<<"a", "*", "?", "b">>), Str(<<"^", "a", "+", "?", "$">>),
     Str(<<"^", "a", "+", "$">>), Str(<<"b", "a", "*", "a">>),
     Str(<<".", "*", "?", "b">>), Str(<<"a", ".", "b">>),
     Str(<<"\\", "D", "\\", "W", "*", "\\", "S">>)}

\* the atoms: a literal, the dot, a class, a negated class, a shorthand
SomeAtoms ==
    {Str(<<"a">>), Str(<<".">>), Str(<<"[", "a", "b", "]">>),
     Str(<<"[", "^", "a", "]">>), Str(<<"\\", "w">>)}

\* an atom repeated exactly n times, greedy and lazy, with a remainder
SingletonPatterns ==
    {x \o Str(<<"{">>) \o n \o close \o suf :
        x \in SomeAtoms,
        n \in GoodNumbers,
        close \in {Str(<<"}">>), Str(<<"}", "?">>)},
        suf \in {<<>>, Str(<<"b">>), Str(<<"$">>)}}

\* the bytes the range classes are built from: two letters and two bytes
\* above 127
RangeEnds == {Code["a"], Code["c"], 200, 202}

\* the class [lo-hi] or [^lo-hi]
RangeClass(lo, hi, neg) ==
    Str(<<"[">>) \o (IF neg THEN Str(<<"^">>) ELSE <<>>) \o <<lo>> \o Str(<<"-">>)
        \o <<hi>> \o Str(<<"]">>)

\* the range classes with their ends, lo <= hi
RangeCases ==
    {[pat |-> RangeClass(lo, hi, neg), lo |-> lo, hi |-> hi, neg |-> neg] :
        lo \in RangeEnds, hi \in RangeEnds, neg \in BOOLEAN}

\* the range classes, the ones with lo > hi too
RangePatterns == {c.pat : c \in RangeCases}

\* patterns that end in an escape or inside a class
BrokenPatterns ==
    {Str(<<"a", "\\">>), Str(<<"\\">>), Str(<<"[", "a", "\\">>), Str(<<"[", "a", "b">>),
     Str(<<"[">>), Str(<<"[", "^">>), Str(<<"a", "[", "^", "a", "-", "c">>),
     Str(<<"a", "\\", "\\">>), Str(<<"[", "a", "\\", "]">>),
     Str(<<"[", "^", "c", "-", "a", "]", "b">>)}

\* patterns as long as the node array and a little longer
LongPatterns ==
    {Repeat("a", k) \o suf :
        k \in (TRE_MAX_NODES - 2)..TRE_MAX_NODES,
        suf \in {<<>>, Str(<<"$">>), Str(<<"b">>), Str(<<"*", "*">>),
                  Str(<<"\\">>), Str(<<"[", "a">>)}}

\* seven classes of plain letters that take seven eighths of the buffer and
\* an eighth class that fills it or nearly does, alone or followed by a
\* ninth class
FullClassPatterns ==
    LET eighth == TRE_MAX_BUFLEN \div 8
        class(k) == Str(<<"[">>) \o Repeat("a", k) \o Str(<<"]">>)
        seven == class(eighth - 1) \o class(eighth - 1) \o class(eighth - 1)
                 \o class(eighth - 1) \o class(eighth - 1) \o class(eighth - 1)
                 \o class(eighth - 1)
    IN  {seven \o class(k) \o suf :
            k \in (eighth - 3)..eighth,
            suf \in {<<>>, Str(<<"[", "]">>), Str(<<"[", "^", "]">>),
                      Str(<<"[", "b", "]">>)}}

\* classes given with their elements: the literal bytes, the ranges and the
\* shorthand letters that the pattern writes between the brackets
ClassCases ==
    {[pat |-> Str(<<"[", "a", "-", "]">>),
      lits |-> {LOWER_A, HYPHEN}, ranges |-> {}, metas |-> {}],
     [pat |-> Str(<<"[", "-", "a", "]">>),
      lits |-> {LOWER_A, HYPHEN}, ranges |-> {}, metas |-> {}],
     [pat |-> Str(<<"[", "a", "\\", "-", "]">>),
      lits |-> {LOWER_A, HYPHEN}, ranges |-> {}, metas |-> {}],
     [pat |-> Str(<<"[", "a", "-", "\\", "d", "]">>),
      lits |-> {LOWER_A, HYPHEN}, ranges |-> {}, metas |-> {LOWER_D}],
     [pat |-> Str(<<"[", "x", "\\", "-", "z", "]">>),
      lits |-> {LOWER_Z - 2, HYPHEN, LOWER_Z}, ranges |-> {}, metas |-> {}],
     [pat |-> Str(<<"[", "\\", "d", "-", "z", "]">>),
      lits |-> {HYPHEN, LOWER_Z}, ranges |-> {}, metas |-> {LOWER_D}],
     [pat |-> Str(<<"[", "x", "-", "z", "\\", "s", "a", "]">>),
      lits |-> {LOWER_A}, ranges |-> {<<LOWER_Z - 2, LOWER_Z>>}, metas |-> {LOWER_S}],
     [pat |-> Str(<<"[", "+", "-", "-", "5", "]">>),
      lits |-> {DIGIT_0 + 5}, ranges |-> {<<PLUS_SIGN, HYPHEN>>}, metas |-> {}]}

ClassPatterns == {c.pat : c \in ClassCases}

\* the bytes the one-byte patterns are built from: a letter and a byte above
\* 127
LiteralBytes == {LOWER_A, 200}

\* a literal atom of one byte, alone and as the only member of a class
BytePatterns ==
    {<<b>> : b \in LiteralBytes}
    \cup {Str(<<"[">>) \o <<b>> \o Str(<<"]">>) : b \in LiteralBytes}

Patterns ==
    BytePatterns \cup ClassPatterns \cup ShortPatterns \cup QuantPatterns \cup SingletonPatterns \cup RangePatterns
    \cup BrokenPatterns \cup ExamplePatterns \cup LongPatterns \cup FullClassPatterns
    \cup {<<>>}

ShortTexts == UNION {[1..k -> {Code["a"], Code["b"]}] : k \in 0..MaxTextLen}

LongTexts == {Repeat("a", k) : k \in (TRE_MAX_NODES - 2)..TRE_MAX_NODES}

\* the texts of one byte, around the ends of the range classes
ByteTexts == {<<c>> : c \in (96..100) \cup (199..203)}

\* the texts of one byte that the classes with a dash tell apart
ClassTexts ==
    {Str(<<c>>) : c \in {"-", ",", "+", "5", "d", "x", "y", "z", " ", "\\"}}

\* the texts a pattern is matched against: the short ones, for the patterns
\* that fill the node array also texts of that length, and for the patterns
\* that start with a class also the texts of one byte
Texts(p) ==
    ShortTexts
    \cup (IF At(p, 0) = LBRACKET THEN ByteTexts \cup ClassTexts ELSE {})
    \cup (IF Len(p) = 1 THEN ByteTexts ELSE {})
    \cup {Repeat("a", k) : k \in 0..MaxRun}
    \cup {Str(<<"x", "4", "2", "y">>), Str(<<"7", " ", "a", "b">>),
          Str(<<"a", "a", "a", "b">>), Str(<<"b", "a", "a", "a">>)}
    \cup (IF Len(p) >= TRE_MAX_NODES - 2 THEN LongTexts ELSE {})

JunkBytes == {0, Code["a"]}

(***************************************************************************)
(* The state machine: a caller compiles a pattern into its storage, which  *)
(* holds the byte junk everywhere before (0 for the zeroed storage of      *)
(* tre_compile_match), and then matches a text with it.                    *)
(***************************************************************************)
\* a tre_comp whose every byte is b: a type byte of 0 is TRE_NONE, any other
\* junk byte used here is no value of the enum
Storage(b) ==
    [nodes |-> [k \in 0..(TRE_MAX_NODES - 1) |->
                   [type |-> IF b = 0 THEN "NONE" ELSE "JUNK",
                    ch |-> b, ccl |-> 0, mn |-> (0 :> 0) @@ (1 :> 0)]],
     buf |-> [k \in 0..(TRE_MAX_BUFLEN - 1) |-> b]]

\* the threads that call tre_match
Threads == {1, 2}

\* no second tre_comp in use, and a thread outside tre_match
NoOther == [pattern |-> <<>>, nodes |-> <<>>, buf |-> <<>>, ret |-> NULL]

IdleCall ==
    [state |-> "idle", text |-> <<>>, p |-> 0, m |-> NULL, mend |-> NULL,
     after |-> FALSE, par |-> FALSE]

\* a pointer into the text as its offset from the start of the text, the
\* null pointer, and no pointer at all
Ptr(p) == [kind |-> "ptr", p |-> p]

NullPtr == [kind |-> "null", p |-> 0]

NoPtr == [kind |-> "none", p |-> 0]

\* no call of tre_match under way.  wide tells whether ptrdiff_t is wider
\* than unsigned in the build, before holds the bytes in memory before the
\* text, the nearest first; stack holds the frames of matchpattern,
\* matchquant and matchquant_lazy, rv the pointer the last of them returned
IdleRun ==
    [state |-> "idle", wide |-> TRUE, before |-> <<>>, scan |-> 0, stack |-> <<>>,
     rv |-> NoPtr, m |-> NoPtr, mend |-> NoPtr]

Init ==
    /\ pattern \in Patterns
    /\ junk \in JunkBytes
    /\ text = <<>>
    /\ pc = "init"
    /\ nodes = Storage(junk).nodes
    /\ buffer = Storage(junk).buf
    /\ ret = 0
    /\ pat_i = 0
    /\ node_j = 0
    /\ oob = FALSE
    /\ m = NULL
    /\ mend = NULL
    /\ other = NoOther
    /\ calls = [th \in Threads |-> IdleCall]
    /\ run = IdleRun

Compile ==
    /\ pc = "init"
    /\ LET st == tre_compile(pattern, nodes, buffer)
       IN  /\ nodes' = st.nodes
           /\ buffer' = st.buf
           /\ ret' = IF st.err THEN 0 ELSE 1
           /\ pat_i' = st.i
           /\ node_j' = st.j
           /\ oob' = st.oob
    /\ pc' = "compiled"
    /\ UNCHANGED <<pattern, text, junk, m, mend, other, calls, run>>

Match ==
    /\ pc = "compiled"
    /\ ret = 1
    /\ \E t \in Texts(pattern) :
        /\ text' = t
        /\ LET r == tre_match([nodes |-> nodes, buf |-> buffer], t)
           IN  m' = r.m /\ mend' = r.mend
    /\ pc' = "matched"
    /\ UNCHANGED <<pattern, junk, nodes, buffer, ret, pat_i, node_j, oob, other, calls, run>>

Next == Compile \/ Match

Spec == Init /\ [][Next]_vars

(***************************************************************************)
(* A second machine over the same storage: the caller owns two tre_comp    *)
(* values, compiles a pattern into each, and two threads call tre_match on *)
(* the first one.  A call is a sequence of steps, one per pass of the loop *)
(* of tre_match, so that the calls of the two threads interleave.          *)
(***************************************************************************)
CallPatterns ==
    {Str(<<"a", "*", "b">>), Str(<<"[", "0", "-", "9", "]", "{", "2", ",", "3", "}">>),
     Str(<<"^", "a", "+", "$">>), Str(<<"a", "^", "b">>)}

OtherPatterns == {Str(<<"b", "+">>), Str(<<"[", "^", "a", "]", "{", "2", "}">>)}

CallTexts ==
    {Str(<<"a", "a", "a", "b">>), Str(<<"x", "4", "2", "y">>), Str(<<"a", "a">>)}

InitCalls ==
    /\ pattern \in CallPatterns
    /\ junk \in JunkBytes
    /\ text = <<>>
    /\ pc = "init"
    /\ nodes = Storage(junk).nodes
    /\ buffer = Storage(junk).buf
    /\ ret = 0
    /\ pat_i = 0
    /\ node_j = 0
    /\ oob = FALSE
    /\ m = NULL
    /\ mend = NULL
    /\ \E b \in OtherPatterns :
          other = [pattern |-> b, nodes |-> Storage(junk).nodes,
                   buf |-> Storage(junk).buf, ret |-> NULL]
    /\ calls = [th \in Threads |-> IdleCall]
    /\ run = IdleRun

\* tre_compile(p, &y) in the revision whose compiled pattern is one static
\* array: the call writes the storage every compiled pattern lives in
OtherCompiled_StaticArrays(p, x, y) ==
    LET st == tre_compile(p, x.nodes, x.buf)
    IN  [x |-> [nodes |-> st.nodes, buf |-> st.buf],
         y |-> [nodes |-> st.nodes, buf |-> st.buf],
         ret |-> IF st.err THEN 0 ELSE 1]

\* tre_compile(p, &y) while the tre_comp x holds a compiled pattern: the two
\* storages afterwards and the return value
OtherCompiled(p, x, y) ==
    LET st == tre_compile(p, y.nodes, y.buf)
    IN  [x |-> x,
         y |-> [nodes |-> st.nodes, buf |-> st.buf],
         ret |-> IF st.err THEN 0 ELSE 1]

CompileOther ==
    /\ pc = "compiled"
    /\ other.ret = NULL
    /\ LET r == OtherCompiled(other.pattern, [nodes |-> nodes, buf |-> buffer],
                              [nodes |-> other.nodes, buf |-> other.buf])
       IN  /\ nodes' = r.x.nodes
           /\ buffer' = r.x.buf
           /\ other' = [other EXCEPT !.nodes = r.y.nodes, !.buf = r.y.buf, !.ret = r.ret]
    /\ UNCHANGED <<pattern, text, junk, pc, ret, pat_i, node_j, oob, m, mend, calls, run>>

\* a thread enters tre_match with its text; par records that the other
\* thread is inside tre_match at that moment
CallBegin(th) ==
    /\ pc = "compiled"
    /\ ret = 1
    /\ calls[th].state = "idle"
    /\ \E t \in CallTexts :
          LET overlap == \E o \in Threads \ {th} : calls[o].state = "run"
          IN  calls' = [o \in Threads |->
                          IF o = th
                          THEN [IdleCall EXCEPT !.state = "run", !.text = t, !.par = overlap]
                          ELSE [calls[o] EXCEPT !.par = @ \/ (overlap /\ calls[o].state = "run")]]
    /\ UNCHANGED <<pattern, text, junk, pc, nodes, buffer, ret, pat_i, node_j, oob,
                   m, mend, other, run>>

\* the step that reads the scan position from a cursor all calls share:
\* the furthest position any call has reached
MatchStep_SharedCursor(rx, t, p) ==
    LET q == CHOOSE x \in {calls[o].p : o \in Threads} :
                 \A o \in Threads : calls[o].p <= x
        e == matchpattern(rx, t, 0, q)
    IN  IF rx.nodes[0].type = "BEGIN"
        THEN [done |-> TRUE, p |-> p,
              m |-> IF matchpattern(rx, t, 1, 0) # NULL THEN 0 ELSE NULL,
              mend |-> matchpattern(rx, t, 1, 0)]
        ELSE IF e # NULL THEN [done |-> TRUE, p |-> q, m |-> q, mend |-> e]
        ELSE IF At(t, q) # 0 THEN [done |-> FALSE, p |-> q + 1, m |-> NULL, mend |-> NULL]
        ELSE [done |-> TRUE, p |-> q, m |-> NULL, mend |-> NULL]

\* one pass of tre_match with text at offset p: the anchored attempt, or
\* one pass of do { mend = matchpattern(nodes, text); ... } while (*text++)
MatchStep(rx, t, p) ==
    LET e == matchpattern(rx, t, 0, p)
    IN  IF rx.nodes[0].type = "BEGIN"
        THEN [done |-> TRUE, p |-> p,
              m |-> IF matchpattern(rx, t, 1, 0) # NULL THEN 0 ELSE NULL,
              mend |-> matchpattern(rx, t, 1, 0)]
        ELSE IF e # NULL THEN [done |-> TRUE, p |-> p, m |-> p, mend |-> e]
        ELSE IF At(t, p) # 0 THEN [done |-> FALSE, p |-> p + 1, m |-> NULL, mend |-> NULL]
        ELSE [done |-> TRUE, p |-> p, m |-> NULL, mend |-> NULL]

\* a thread takes one step of its call; after records that the second
\* tre_comp had been compiled when the call returned
CallStep(th) ==
    /\ calls[th].state = "run"
    /\ LET r == MatchStep([nodes |-> nodes, buf |-> buffer], calls[th].text, calls[th].p)
       IN  calls' = [calls EXCEPT ![th] =
                        [@ EXCEPT !.state = IF r.done THEN "done" ELSE "run",
                                  !.p = r.p, !.m = r.m, !.mend = r.mend,
                                  !.after = r.done /\ other.ret # NULL]]
    /\ UNCHANGED <<pattern, text, junk, pc, nodes, buffer, ret, pat_i, node_j, oob,
                   m, mend, other, run>>

NextCalls ==
    \/ Compile
    \/ CompileOther
    \/ \E th \in Threads : CallBegin(th)
    \/ \E th \in Threads : CallStep(th)

SpecCalls == InitCalls /\ [][NextCalls]_vars

(***************************************************************************)
(* A third machine: the caller compiles a pattern, copies the tre_comp     *)
(* into a second one by assignment, may compile another pattern into the   *)
(* first one, and matches a text with the copy.                            *)
(***************************************************************************)
InitCopy ==
    /\ pattern \in CallPatterns
    /\ junk \in JunkBytes
    /\ text = <<>>
    /\ pc = "init"
    /\ nodes = Storage(junk).nodes
    /\ buffer = Storage(junk).buf
    /\ ret = 0
    /\ pat_i = 0
    /\ node_j = 0
    /\ oob = FALSE
    /\ m = NULL
    /\ mend = NULL
    /\ other = NoOther
    /\ calls = [th \in Threads |-> IdleCall]
    /\ run = IdleRun

\* tre_comp copy = orig: every node and every buffer byte is copied
CopyComp ==
    /\ pc = "compiled"
    /\ ret = 1
    /\ other' = [pattern |-> pattern, nodes |-> nodes, buf |-> buffer, ret |-> 1]
    /\ pc' = "copied"
    /\ UNCHANGED <<pattern, text, junk, nodes, buffer, ret, pat_i, node_j, oob,
                   m, mend, calls, run>>

\* tre_compile of another pattern into the first tre_comp
Recompile ==
    /\ pc = "copied"
    /\ \E q \in OtherPatterns :
          LET st == tre_compile(q, nodes, buffer)
          IN  /\ pattern' = q
              /\ nodes' = st.nodes
              /\ buffer' = st.buf
              /\ ret' = IF st.err THEN 0 ELSE 1
              /\ pat_i' = st.i
              /\ node_j' = st.j
              /\ oob' = st.oob
    /\ pc' = "overwritten"
    /\ UNCHANGED <<text, junk, m, mend, other, calls, run>>

\* the copy with the pointers it carries replaced by the storage they lead
\* to.  ccl of a class node is &buf[buf_begin] of the buffer that
\* tre_compile wrote, and the model keeps it as the offset buf_begin into
\* that buffer; the assignment copies the pointer, so the class nodes of
\* the copy lead into the buffer of the original, and the buffer bytes of
\* the copy itself are read by no node.
CopyView(copy, orig) == [nodes |-> copy.nodes, buf |-> orig.buf]

\* tre_match(&copy, text, &end)
MatchCopy ==
    /\ pc \in {"copied", "overwritten"}
    /\ \E t \in CallTexts \cup ShortTexts :
        /\ text' = t
        /\ LET r == tre_match(CopyView(other, [nodes |-> nodes, buf |-> buffer]), t)
           IN  m' = r.m /\ mend' = r.mend
    /\ pc' = "copymatched"
    /\ UNCHANGED <<pattern, junk, nodes, buffer, ret, pat_i, node_j, oob, other, calls, run>>

NextCopy == Compile \/ CopyComp \/ Recompile \/ MatchCopy

SpecCopy == InitCopy /\ [][NextCopy]_vars

(***************************************************************************)
(* A fourth machine: the caller compiles a pattern of one quantified       *)
(* letter and matches it with runs of that letter, the short ones and the  *)
(* ones as long as the ceilings TRE_MAXQUANT and TRE_MAXPLUS.              *)
(***************************************************************************)
\* the quantifiers with their least and greatest counts
RunQuantifiers ==
    {[q |-> Str(<<"*">>), min |-> 0, max |-> TRE_MAXPLUS],
     [q |-> Str(<<"+">>), min |-> 1, max |-> TRE_MAXPLUS],
     [q |-> Str(<<"?">>), min |-> 0, max |-> 1],
     [q |-> Str(<<"{", "2", ",", "}">>), min |-> 2, max |-> TRE_MAXQUANT],
     [q |-> Str(<<"{", "1", ",", "3", "}">>), min |-> 1, max |-> 3]}

\* ^aQ$ and aQ$ for each quantifier Q, greedy and lazy
RunCases ==
    {[pat |-> (IF anch THEN Str(<<"^">>) ELSE <<>>) \o Str(<<"a">>) \o c.q
                 \o (IF lazy THEN Str(<<"?">>) ELSE <<>>) \o Str(<<"$">>),
      anch |-> anch, lazy |-> lazy, min |-> c.min, max |-> c.max] :
        c \in RunQuantifiers, anch \in BOOLEAN, lazy \in BOOLEAN}

\* the text of k letters a, as a sequence
Run(k) == SubSeq(Repeat("a", k), 1, k)

\* the runs a pattern is matched with: the short ones and the ones around
\* its greatest count
RunTexts(p) ==
    {Run(k) : k \in 0..MaxRun}
    \cup UNION {{Run(c.max), Run(c.max + 1)} :
                  c \in {x \in RunCases : x.pat = p}}

InitLong ==
    /\ pattern \in {c.pat : c \in RunCases}
    /\ junk \in JunkBytes
    /\ text = <<>>
    /\ pc = "init"
    /\ nodes = Storage(junk).nodes
    /\ buffer = Storage(junk).buf
    /\ ret = 0
    /\ pat_i = 0
    /\ node_j = 0
    /\ oob = FALSE
    /\ m = NULL
    /\ mend = NULL
    /\ other = NoOther
    /\ calls = [th \in Threads |-> IdleCall]
    /\ run = IdleRun

\* tre_match(&tregex, text, &end) on a run
MatchLong ==
    /\ pc = "compiled"
    /\ ret = 1
    /\ \E t \in RunTexts(pattern) :
        /\ text' = t
        /\ LET r == tre_match([nodes |-> nodes, buf |-> buffer], t)
           IN  m' = r.m /\ mend' = r.mend
    /\ pc' = "matched"
    /\ UNCHANGED <<pattern, junk, nodes, buffer, ret, pat_i, node_j, oob, other, calls, run>>

NextLong == Compile \/ MatchLong

SpecLong == InitLong /\ [][NextLong]_vars

(***************************************************************************)
(* A fifth machine: one call of tre_match taken statement by statement.    *)
(* The calls of matchpattern, matchquant and matchquant_lazy are frames on *)
(* a stack; a step is one pass of a loop of the function on top, or the    *)
(* return of a pointer to its caller.  The build fixes whether ptrdiff_t   *)
(* is wider than unsigned (LP64, LLP64) or as wide (ILP32), and the memory *)
(* before the text holds some bytes that can be read and ends there.       *)
(***************************************************************************)
RunPatterns ==
    {Str(<<"a", "*", "b">>), Str(<<"^", "a", "*", "b">>), Str(<<"a", "+", "?", "b">>),
     Str(<<"[", "0", "-", "9", "]", "{", "2", ",", "3", "}">>),
     Str(<<"^", "a", "+", "$">>), Str(<<"b", "a", "*", "a">>),
     Str(<<"a", "{", "0", ",", "2", "}", "?", "b">>), Str(<<".", "*", "?", "b">>),
     Str(<<"a", "?", "b", "*", "c">>), Str(<<"a", "b">>), Str(<<"a", "*">>),
     Str(<<"a", "+", "b", "?">>)}

RunStepTexts ==
    {Str(<<"a", "a", "a", "b">>), Str(<<"a", "a">>), Str(<<"x", "4", "2", "y">>),
     Str(<<"b", "a", "a", "a">>), Str(<<"a", "b">>), <<>>}

\* the memory before the text: nothing that can be read, or one byte
Befores == {<<>>, Str(<<"b">>)}

\* the compiled pattern in the caller's storage
Rx == [nodes |-> nodes, buf |-> buffer]

InitRun ==
    /\ pattern \in RunPatterns
    /\ junk \in JunkBytes
    /\ text = <<>>
    /\ pc = "init"
    /\ nodes = Storage(junk).nodes
    /\ buffer = Storage(junk).buf
    /\ ret = 0
    /\ pat_i = 0
    /\ node_j = 0
    /\ oob = FALSE
    /\ m = NULL
    /\ mend = NULL
    /\ other = NoOther
    /\ calls = [th \in Threads |-> IdleCall]
    /\ \E w \in BOOLEAN : \E b \in Befores :
          run = [IdleRun EXCEPT !.wide = w, !.before = b]

\* a new frame of matchpattern(tnode, text) with tnode = nodes + n and
\* text at offset p
PatternFrame(n, p) ==
    [fn |-> "pattern", n |-> n, p |-> p, start |-> p, min |-> 0, max |-> 0,
     phase |-> "loop"]

\* the frame on top of the stack, the stack without it, and the stack with
\* another frame in its place
Top(r) == r.stack[Len(r.stack)]

Pop(r) == SubSeq(r.stack, 1, Len(r.stack) - 1)

SetTop(r, f) == [r.stack EXCEPT ![Len(r.stack)] = f]

\* return v; from the function on top
Returning(r, v) == [r EXCEPT !.stack = Pop(r), !.rv = v]

\* a read outside the text and the readable bytes before it
Faulted(r) == [r EXCEPT !.state = "fault"]

\* text[p] can be read, and the byte read
Readable(r, p) == p >= 0 - Len(r.before)

ByteAt(r, t, p) == IF p >= 0 THEN At(t, p) ELSE r.before[0 - p]

\* *text && matchone(tnode, *text)
AtomByte(rx, r, t, n, p) ==
    ByteAt(r, t, p) # 0 /\ matchone(rx.nodes[n], rx.buf, SChar(ByteAt(r, t, p)))

\* text - start >= min with min of type unsigned.  Where ptrdiff_t is wider
\* than unsigned, min is converted to ptrdiff_t and the comparison is
\* signed; where it is as wide, text - start is converted to unsigned, and
\* a negative difference becomes a number greater than every min.
DiffGEMin(r, d, min) ==
    IF r.wide THEN d >= min
    ELSE IF d < 0 THEN TRUE ELSE d >= min

\* one pass of the loop of matchpattern
PatternPass(rx, t, r) ==
    LET f == Top(r)
        t0 == rx.nodes[f.n].type
        t1 == rx.nodes[f.n + 1].type
    IN  CASE t0 = "NONE" -> Returning(r, Ptr(f.p))
          [] t0 # "NONE" /\ t0 = "END" /\ t1 = "NONE" ->
                IF ~Readable(r, f.p) THEN Faulted(r)
                ELSE Returning(r, IF ByteAt(r, t, f.p) = 0 THEN Ptr(f.p) ELSE NullPtr)
          [] t0 # "NONE" /\ ~(t0 = "END" /\ t1 = "NONE")
                /\ t1 \in {"QMARK", "QUANT", "STAR", "PLUS"} ->
                [r EXCEPT !.stack = SetTop(r,
                    [fn |-> "greedy", n |-> f.n, p |-> f.p, start |-> f.p,
                     min |-> SwitchMin(rx.nodes[f.n + 1]),
                     max |-> SwitchMax(rx.nodes[f.n + 1]), phase |-> "consume"])]
          [] t0 # "NONE" /\ ~(t0 = "END" /\ t1 = "NONE")
                /\ t1 \in {"LQMARK", "LQUANT", "LSTAR", "LPLUS"} ->
                [r EXCEPT !.stack = SetTop(r,
                    [fn |-> "lazy", n |-> f.n, p |-> f.p, start |-> f.p,
                     min |-> SwitchMin(rx.nodes[f.n + 1]),
                     max |-> SwitchMax(rx.nodes[f.n + 1])
                              - SwitchMin(rx.nodes[f.n + 1]) + 1,
                     phase |-> "consume"])]
          [] OTHER ->
                IF ~Readable(r, f.p) THEN Faulted(r)
                ELSE IF AtomByte(rx, r, t, f.n, f.p)
                THEN [r EXCEPT !.stack = SetTop(r, [f EXCEPT !.n = @ + 1, !.p = @ + 1])]
                ELSE Returning(r, NullPtr)

\* one step of matchquant: a pass of its first loop, the test of its second
\* loop with the call of matchpattern(tnode + 2, text--), or what follows
\* the return of that call
GreedyPass(rx, t, r) ==
    LET f == Top(r)
    IN  CASE f.phase = "consume" ->
                IF f.max = 0
                THEN [r EXCEPT !.stack = SetTop(r, [f EXCEPT !.phase = "backtrack"])]
                ELSE IF ~Readable(r, f.p) THEN Faulted(r)
                ELSE IF AtomByte(rx, r, t, f.n, f.p)
                THEN [r EXCEPT !.stack = SetTop(r, [f EXCEPT !.p = @ + 1, !.max = @ - 1])]
                ELSE [r EXCEPT !.stack = SetTop(r, [f EXCEPT !.phase = "backtrack"])]
          [] f.phase = "backtrack" ->
                IF DiffGEMin(r, f.p - f.start, f.min)
                THEN [r EXCEPT !.stack =
                        Append(SetTop(r, [f EXCEPT !.p = @ - 1, !.phase = "called"]),
                               PatternFrame(f.n + 2, f.p))]
                ELSE Returning(r, NullPtr)
          [] OTHER ->
                IF r.rv.kind = "ptr" THEN Returning(r, r.rv)
                ELSE [r EXCEPT !.stack = SetTop(r, [f EXCEPT !.phase = "backtrack"]),
                               !.rv = NoPtr]

\* one step of matchquant_lazy: a pass of its first loop, the call of
\* matchpattern(tnode + 2, text), or what follows the return of that call
LazyPass(rx, t, r) ==
    LET f == Top(r)
    IN  CASE f.phase = "consume" ->
                IF f.min = 0
                THEN [r EXCEPT !.stack = SetTop(r, [f EXCEPT !.phase = "try"])]
                ELSE IF ~Readable(r, f.p) THEN Faulted(r)
                ELSE IF AtomByte(rx, r, t, f.n, f.p)
                THEN [r EXCEPT !.stack = SetTop(r, [f EXCEPT !.p = @ + 1, !.min = @ - 1])]
                ELSE Returning(r, NullPtr)
          [] f.phase = "try" ->
                [r EXCEPT !.stack = Append(SetTop(r, [f EXCEPT !.phase = "called"]),
                                           PatternFrame(f.n + 2, f.p))]
          [] OTHER ->
                IF r.rv.kind = "ptr" THEN Returning(r, r.rv)
                ELSE IF f.max - 1 = 0 THEN Returning(r, NullPtr)
                ELSE IF ~Readable(r, f.p) THEN Faulted(r)
                ELSE IF AtomByte(rx, r, t, f.n, f.p)
                THEN [r EXCEPT !.stack = SetTop(r, [f EXCEPT !.p = @ + 1, !.max = @ - 1,
                                                             !.phase = "try"]),
                               !.rv = NoPtr]
                ELSE Returning(r, NullPtr)

\* what tre_match does with the pointer that matchpattern returned to it
ScanPass(rx, t, r) ==
    IF rx.nodes[0].type = "BEGIN"
    THEN IF r.rv.kind = "ptr"
         THEN [r EXCEPT !.state = "returned", !.m = Ptr(0), !.mend = r.rv]
         ELSE [r EXCEPT !.state = "returned", !.m = NullPtr, !.mend = NullPtr]
    ELSE IF r.rv.kind = "ptr"
         THEN [r EXCEPT !.state = "returned", !.m = Ptr(r.scan), !.mend = r.rv]
    ELSE IF At(t, r.scan) # 0
         THEN [r EXCEPT !.scan = @ + 1, !.rv = NoPtr,
                        !.stack = <<PatternFrame(0, r.scan + 1)>>]
    ELSE [r EXCEPT !.state = "returned", !.m = NullPtr, !.mend = NullPtr]

\* the caller enters tre_match, which calls matchpattern
RunBegin ==
    /\ pc = "compiled"
    /\ ret = 1
    /\ run.state = "idle"
    /\ \E t \in RunStepTexts :
          /\ text' = t
          /\ run' = [run EXCEPT !.state = "run",
                                !.stack = <<PatternFrame(IF nodes[0].type = "BEGIN"
                                                         THEN 1 ELSE 0, 0)>>]
    /\ UNCHANGED <<pattern, junk, pc, nodes, buffer, ret, pat_i, node_j, oob, m, mend,
                   other, calls>>

ScanStep ==
    /\ run.state = "run"
    /\ run.stack = <<>>
    /\ run' = ScanPass(Rx, text, run)
    /\ UNCHANGED <<pattern, text, junk, pc, nodes, buffer, ret, pat_i, node_j, oob,
                   m, mend, other, calls>>

PatternStep ==
    /\ run.state = "run"
    /\ run.stack # <<>>
    /\ Top(run).fn = "pattern"
    /\ run' = PatternPass(Rx, text, run)
    /\ UNCHANGED <<pattern, text, junk, pc, nodes, buffer, ret, pat_i, node_j, oob,
                   m, mend, other, calls>>

GreedyStep ==
    /\ run.state = "run"
    /\ run.stack # <<>>
    /\ Top(run).fn = "greedy"
    /\ run' = GreedyPass(Rx, text, run)
    /\ UNCHANGED <<pattern, text, junk, pc, nodes, buffer, ret, pat_i, node_j, oob,
                   m, mend, other, calls>>

LazyStep ==
    /\ run.state = "run"
    /\ run.stack # <<>>
    /\ Top(run).fn = "lazy"
    /\ run' = LazyPass(Rx, text, run)
    /\ UNCHANGED <<pattern, text, junk, pc, nodes, buffer, ret, pat_i, node_j, oob,
                   m, mend, other, calls>>

NextRun ==
    \/ Compile
    \/ RunBegin
    \/ ScanStep
    \/ PatternStep
    \/ GreedyStep
    \/ LazyStep

\* the processor goes on with the call as long as there is a statement to
\* execute
SpecRun ==
    /\ InitRun
    /\ [][NextRun]_vars
    /\ WF_vars(ScanStep) /\ WF_vars(PatternStep) /\ WF_vars(GreedyStep)
    /\ WF_vars(LazyStep)

(***************************************************************************)
(* Vocabulary of the properties.                                           *)
(***************************************************************************)
Matched == pc = "matched" /\ ret = 1

SetMax(S) == CHOOSE x \in S : \A y \in S : x >= y

SetMin(S) == CHOOSE x \in S : \A y \in S : x <= y

GreedyTypes == {"QMARK", "QUANT", "STAR", "PLUS"}

LazyTypes == {"LQMARK", "LQUANT", "LSTAR", "LPLUS"}

\* the indices of the atoms that carry a quantifier of one of the types tys
QuantifiedAtoms(tys) ==
    {n \in 0..(node_j - 2) : nodes[n + 1].type \in tys}

\* the least and the greatest repetition count of the quantifier node q
QMin(q) ==
    CASE q.type \in {"QMARK", "LQMARK", "STAR", "LSTAR"} -> 0
      [] q.type \in {"PLUS", "LPLUS"} -> 1
      [] OTHER -> q.mn[0]

QMax(q) ==
    CASE q.type \in {"QMARK", "LQMARK"} -> 1
      [] q.type \in {"STAR", "LSTAR", "PLUS", "LPLUS"} -> TRE_MAXPLUS
      [] OTHER -> q.mn[1]

\* the number of consecutive bytes of the text from p on that the atom n
\* matches, capped at cap
RunLength(n, p, cap) ==
    LET lim == IF cap < Len(text) - p THEN cap ELSE Len(text) - p
    IN  CHOOSE r \in 0..lim :
            /\ \A q \in 0..(r - 1) : AtomAt(Rx, text, n, p + q)
            /\ r = lim \/ ~AtomAt(Rx, text, n, p + r)

\* the repetition counts of atom n at p after which the rest of the program
\* matches
GoodCounts(n, p) ==
    LET q == nodes[n + 1]
    IN  {k \in QMin(q)..RunLength(n, p, QMax(q)) :
            matchpattern(Rx, text, n + 2, p + k) # NULL}

\* C1: a match lies inside the text, 0 <= s <= e <= len(T), and the matcher
\* run at s on the program the scan driver runs (the program after a
\* leading begin-anchor) ends at e.
C1_MatchInsideText ==
    (Matched /\ m # NULL) =>
        /\ 0 <= m /\ m <= mend /\ mend <= Len(text)
        /\ matchpattern(Rx, text, IF nodes[0].type = "BEGIN" THEN 1 ELSE 0, m) = mend

\* a match that starts after offset 0, is not empty and ends before the end
C1_Witness ==
    Matched /\ m # NULL /\ 0 < m /\ m < mend /\ mend < Len(text)

\* C3: without a leading begin-anchor the returned start is the smallest
\* offset in 0..len(T) at which matchpattern succeeds on the whole program,
\* and no-match is returned only when it fails at every such offset.
C3_LeftmostMatch ==
    (Matched /\ nodes[0].type # "BEGIN") =>
        LET Hits == {s \in 0..Len(text) : matchpattern(Rx, text, 0, s) # NULL}
        IN  /\ m = NULL <=> Hits = {}
            /\ m # NULL => m = SetMin(Hits) /\ mend = matchpattern(Rx, text, 0, m)
            /\ (pattern = Str(<<"[", "0", "-", "9", "]", "{", "2", ",", "3", "}">>)
                /\ text = Str(<<"x", "4", "2", "y">>)) => (m = 1 /\ mend = 3)

\* [0-9]{2,3} finds 42 in x42y, after failing at offset 0
C3_Witness ==
    /\ Matched
    /\ pattern = Str(<<"[", "0", "-", "9", "]", "{", "2", ",", "3", "}">>)
    /\ text = Str(<<"x", "4", "2", "y">>)
    /\ m = 1

\* C4: a greedy quantified atom at text position p gives the result of the
\* rest of the program after the largest repetition count k, min <= k <= r,
\* at which the rest matches, r being the run of bytes the atom matches
\* capped at max, and fails when there is no such k; a*b on aaab is (0,4).
C4_GreedyLongestFirst ==
    Matched =>
        /\ \A n \in QuantifiedAtoms(GreedyTypes) : \A p \in 0..Len(text) :
              matchpattern(Rx, text, n, p) =
                 IF GoodCounts(n, p) = {} THEN NULL
                 ELSE matchpattern(Rx, text, n + 2, p + SetMax(GoodCounts(n, p)))
        /\ (pattern = Str(<<"a", "*", "b">>) /\ text = Str(<<"a", "a", "a", "b">>))
              => (m = 0 /\ mend = 4)

\* a greedy quantifier gives back repetitions: the rest of the program fails
\* after the whole run and matches after a shorter one
C4_Witness ==
    /\ Matched
    /\ \E n \in QuantifiedAtoms(GreedyTypes) : \E p \in 0..Len(text) :
          /\ GoodCounts(n, p) # {}
          /\ QMin(nodes[n + 1]) < SetMax(GoodCounts(n, p))
          /\ SetMax(GoodCounts(n, p)) < RunLength(n, p, QMax(nodes[n + 1]))

\* C5: a lazy quantified atom at text position p fails when the run r is
\* shorter than min, and otherwise gives the result of the rest of the
\* program after the smallest repetition count k, min <= k <= r, at which
\* the rest matches, and fails when there is no such k; a?? on aa is (0,0).
C5_LazyShortestFirst ==
    Matched =>
        /\ \A n \in QuantifiedAtoms(LazyTypes) : \A p \in 0..Len(text) :
              matchpattern(Rx, text, n, p) =
                 IF GoodCounts(n, p) = {} THEN NULL
                 ELSE matchpattern(Rx, text, n + 2, p + SetMin(GoodCounts(n, p)))
        /\ (pattern = Str(<<"a", "?", "?">>) /\ text = Str(<<"a", "a">>))
              => (m = 0 /\ mend = 0)

\* a lazy quantifier takes more than its minimum: the rest of the program
\* fails after min repetitions and matches after a longer run
C5_Witness ==
    /\ Matched
    /\ \E n \in QuantifiedAtoms(LazyTypes) : \E p \in 0..Len(text) :
          /\ GoodCounts(n, p) # {}
          /\ QMin(nodes[n + 1]) < SetMin(GoodCounts(n, p))
          /\ SetMin(GoodCounts(n, p)) < RunLength(n, p, QMax(nodes[n + 1]))

\* the pattern ^a{lo,hi}$, lazy with a ? after the brace
Anchored(lo, hi, lazy) ==
    Str(<<"^", "a", "{">>) \o Digits(lo) \o Str(<<",">>) \o Digits(hi)
        \o Str(<<"}">>) \o (IF lazy THEN Str(<<"?">>) ELSE <<>>) \o Str(<<"$">>)

\* the anchored patterns with their bounds, 0 <= lo <= hi <= MAXQUANT
AnchoredCases ==
    {[pat |-> Anchored(lo, hi, lazy), lo |-> lo, hi |-> hi] :
        lo \in 0..MaxQuant, hi \in 0..MaxQuant \cup {TRE_MAXQUANT},
        lazy \in BOOLEAN}

\* C6: ^a{lo,hi}$ and ^a{lo,hi}?$ compile for 0 <= lo <= hi <= MAXQUANT and
\* match a text of k copies of a exactly when lo <= k <= hi, as the whole
\* text.
C6_BoundsEnforced ==
    (pc # "init" /\ At(pattern, 0) = Code["^"] /\ At(pattern, 2) = Code["{"]) =>
        \A c \in AnchoredCases :
            (c.lo <= c.hi /\ pattern = c.pat) =>
                /\ ret = 1
                /\ (pc = "matched" /\ text = Repeat("a", Len(text))) =>
                      /\ m # NULL <=> (c.lo <= Len(text) /\ Len(text) <= c.hi)
                      /\ m # NULL => (m = 0 /\ mend = Len(text))

\* ^a{2,4}$ takes aaaa
C6_Witness ==
    /\ Matched
    /\ pattern = Anchored(2, 4, FALSE)
    /\ text = Repeat("a", 4)
    /\ m = 0 /\ mend = 4

\* C7: a pattern that starts with ^ is tried at offset 0 only: a match has
\* s = 0, and there is no match whenever the rest of the program fails at
\* offset 0, also when it matches at a later offset.
C7_AnchoredAtZero ==
    (Matched /\ At(pattern, 0) = Code["^"]) =>
        /\ m \in {NULL, 0}
        /\ m = NULL <=> matchpattern(Rx, text, 1, 0) = NULL
        /\ m = 0 => mend = matchpattern(Rx, text, 1, 0)

\* ^a+$ on baaa: no match, although a+$ matches from offset 1
C7_Witness ==
    /\ Matched
    /\ pattern = Str(<<"^", "a", "+", "$">>)
    /\ text = Str(<<"b", "a", "a", "a">>)
    /\ m = NULL
    /\ matchpattern(Rx, text, 1, 1) = 4

(***************************************************************************)
(* The pattern grammar, read off the pattern string alone: the tokens of a *)
(* pattern are its anchors, its atoms (a literal, a dot, an escape pair, a *)
(* class up to its closing bracket) and its quantifiers (star, plus,       *)
(* question mark or a brace group, with the lazy question mark that may    *)
(* follow).  A token is [kind, lo, hi]: it takes the characters            *)
(* lo .. hi - 1 of the pattern.                                            *)
(***************************************************************************)
\* the index after the ] that closes a class scanned from q on, past the
\* end of the pattern when nothing closes it
RECURSIVE ClassEnd(_, _)
ClassEnd(p, q) ==
    IF q >= Len(p) THEN Len(p) + 1
    ELSE IF At(p, q) = Code["]"] THEN q + 1
    ELSE IF At(p, q) = Code["\\"] THEN ClassEnd(p, q + 2)
    ELSE ClassEnd(p, q + 1)

\* the index of the first } from q on, Len(p) when there is none
RECURSIVE BraceClose(_, _)
BraceClose(p, q) ==
    IF q >= Len(p) \/ At(p, q) = Code["}"] THEN q ELSE BraceClose(p, q + 1)

\* hi, or hi + 1 when a lazy ? follows
WithLazy(p, hi) == IF At(p, hi) = Code["?"] THEN hi + 1 ELSE hi

TokenAt(p, i) ==
    LET c == At(p, i)
    IN  CASE c \in {Code["^"], Code["$"]} -> [kind |-> "anchor", lo |-> i, hi |-> i + 1]
          [] c \in {Code["*"], Code["+"], Code["?"]} ->
                [kind |-> "quant", lo |-> i, hi |-> WithLazy(p, i + 1)]
          [] c = Code["{"] ->
                [kind |-> "quant", lo |-> i,
                 hi |-> IF BraceClose(p, i + 1) >= Len(p) THEN Len(p) + 1
                        ELSE WithLazy(p, BraceClose(p, i + 1) + 1)]
          [] c = Code["\\"] -> [kind |-> "atom", lo |-> i, hi |-> i + 2]
          [] c = Code["["] ->
                [kind |-> "atom", lo |-> i,
                 hi |-> ClassEnd(p, IF At(p, i + 1) = Code["^"] THEN i + 2 ELSE i + 1)]
          [] OTHER -> [kind |-> "atom", lo |-> i, hi |-> i + 1]

RECURSIVE Lex(_, _)
Lex(p, i) ==
    IF i >= Len(p) THEN <<>> ELSE <<TokenAt(p, i)>> \o Lex(p, TokenAt(p, i).hi)

Tokens(p) == Lex(p, 0)

\* a quantifier with no atom directly before it
DanglingQuantifier(p) ==
    LET toks == Tokens(p)
    IN  \E k \in 1..Len(toks) :
            /\ toks[k].kind = "quant"
            /\ k = 1 \/ toks[k - 1].kind # "atom"

\* the last character is a $ that is an end-anchor
EndsWithDollar(p) ==
    LET toks == Tokens(p)
    IN  /\ toks # <<>>
        /\ toks[Len(toks)].kind = "anchor"
        /\ toks[Len(toks)].hi = Len(p)
        /\ At(p, Len(p) - 1) = Code["$"]

\* the number a digit string writes, or TRE_MAXQUANT + 1 when it writes a
\* greater one
RECURSIVE Decimal(_)
Decimal(ds) ==
    IF ds = <<>> THEN 0
    ELSE LET v == 10 * Decimal(SubSeq(ds, 1, Len(ds) - 1)) + (ds[Len(ds)] - Code["0"])
         IN  IF v > TRE_MAXQUANT THEN TRE_MAXQUANT + 1 ELSE v

AllDigits(ds) == \A k \in 1..Len(ds) : IsDigitChar(ds[k])

\* the brace group whose { is at lo is not a well-formed {m}, {m,} or {m,n}
\* with m <= n <= MAXQUANT
BadBraceAt(p, lo) ==
    LET close == BraceClose(p, lo + 1)
        body == SubSeq(p, lo + 2, close)
        commas == {k \in 1..Len(body) : body[k] = Code[","]}
        lower == IF commas = {} THEN body ELSE SubSeq(body, 1, SetMin(commas) - 1)
        upper == IF commas = {} THEN <<>>
                 ELSE SubSeq(body, SetMin(commas) + 1, Len(body))
    IN  \/ close >= Len(p)
        \/ lower = <<>>
        \/ ~AllDigits(lower)
        \/ ~AllDigits(upper)
        \/ Decimal(lower) > TRE_MAXQUANT
        \/ Decimal(upper) > TRE_MAXQUANT
        \/ upper # <<>> /\ Decimal(upper) < Decimal(lower)

BadBrace(p) ==
    LET toks == Tokens(p)
    IN  \E k \in 1..Len(toks) :
            toks[k].kind = "quant" /\ At(p, toks[k].lo) = Code["{"]
            /\ BadBraceAt(p, toks[k].lo)

\* C2: compile fails for a pattern with more atoms, anchors and quantifiers
\* than the TRE_MAX_NODES - 1 nodes left beside the sentinel; a successful
\* compile has read the whole pattern.
C2_OverflowReported ==
    (pc # "init" /\ ret = 1) =>
        /\ Len(Tokens(pattern)) <= TRE_MAX_NODES - 1
        /\ pat_i >= Len(pattern)

\* C8: for a pattern that compiles and ends in the end-anchor $, every match
\* ends at the end of the text.
C8_DollarEndsAtTextEnd ==
    (Matched /\ EndsWithDollar(pattern) /\ m # NULL) => mend = Len(text)

\* C9: compile fails for every pattern with a quantifier that has no atom
\* directly before it.
C9_DanglingQuantifierFails ==
    (pc # "init" /\ DanglingQuantifier(pattern)) => ret = 0

\* C10: compile fails for every pattern with a brace quantifier whose bound
\* is no number, whose min is missing, that is not closed, whose max is
\* below its min, or whose min or max is written greater than MAXQUANT.
C10_BadBraceFails ==
    (pc # "init" /\ BadBrace(pattern)) => ret = 0

\* what holds of the three above for the patterns that fit the node array
FitsNodes(p) == Len(Tokens(p)) <= TRE_MAX_NODES - 1

WithinCapacity_DollarEndsAtTextEnd ==
    FitsNodes(pattern) => C8_DollarEndsAtTextEnd

WithinCapacity_DanglingQuantifierFails ==
    FitsNodes(pattern) => C9_DanglingQuantifierFails

\* the brace numbers that the 64-bit accumulator holds
WithinCapacity_BadBraceFails ==
    (FitsNodes(pattern) /\ Len(pattern) < 20) => C10_BadBraceFails

(***************************************************************************)
(* C11: the same pattern compiled into storages of different contents.     *)
(***************************************************************************)
\* the compiled pattern that tre_compile leaves in a storage whose every
\* byte was b before the call
CompiledOn(p, b) ==
    LET st == tre_compile(p, Storage(b).nodes, Storage(b).buf)
    IN  [nodes |-> st.nodes, buf |-> st.buf]

\* C11: the result of the match is the result that the same pattern gives
\* when it is compiled into a storage of any other previous contents.
C11_SameResultWhateverStorage ==
    Matched =>
        \A b \in JunkBytes :
            tre_match(CompiledOn(pattern, b), text) = [m |-> m, mend |-> mend]

\* a begin-anchor node past index 0 or an end-anchor node before the last
\* node: the nodes that matchone compares by their ch, which tre_compile
\* never writes
MisplacedAnchor ==
    \E n \in 0..(node_j - 1) :
        \/ n > 0 /\ nodes[n].type = "BEGIN"
        \/ n < node_j - 1 /\ nodes[n].type = "END"

\* what holds of C11 for the programs without such a node
WellAnchored_SameResultWhateverStorage ==
    ~MisplacedAnchor => C11_SameResultWhateverStorage

(***************************************************************************)
(* C12: the greedy and the lazy form of a quantifier {n}.                  *)
(***************************************************************************)
\* the brace quantifiers of p that are written {n}, n a digit string, and
\* are greedy: the tokens that end with their closing brace
GreedySingletons(p) ==
    LET toks == Tokens(p)
    IN  {k \in 1..Len(toks) :
            /\ toks[k].kind = "quant"
            /\ At(p, toks[k].lo) = Code["{"]
            /\ toks[k].hi <= Len(p)
            /\ At(p, toks[k].hi - 1) = Code["}"]
            /\ toks[k].hi - toks[k].lo > 2
            /\ AllDigits(SubSeq(p, toks[k].lo + 2, toks[k].hi - 1))}

\* p with a ? written after its first hi characters
LazyForm(p, hi) ==
    SubSeq(p, 1, hi) \o Str(<<"?">>) \o SubSeq(p, hi + 1, Len(p))

\* C12: a pattern with a greedy {n} and the pattern with {n}? in its place
\* have the same compile result and, when they compile, the same match
\* result on the text.
C12_SingletonGreedyLazyAgree ==
    (pc # "init" /\ LBRACE \in {pattern[k] : k \in 1..Len(pattern)}) =>
        \A k \in GreedySingletons(pattern) :
            LET lz == tre_compile(LazyForm(pattern, Tokens(pattern)[k].hi),
                                  Storage(junk).nodes, Storage(junk).buf)
            IN  /\ lz.err <=> ret = 0
                /\ pc = "matched" =>
                      tre_match([nodes |-> lz.nodes, buf |-> lz.buf], text)
                          = [m |-> m, mend |-> mend]

\* a{2}b on aaab: the match (1,4), found after the failure at offset 0
C12_Witness ==
    /\ Matched
    /\ pattern = Str(<<"a", "{", "2", "}", "b">>)
    /\ GreedySingletons(pattern) = {2}
    /\ text = Str(<<"a", "a", "a", "b">>)
    /\ m = 1 /\ mend = 4

(***************************************************************************)
(* C13: the range classes.                                                 *)
(***************************************************************************)
\* C13: the class [lo-hi], lo <= hi, compiles, matches a text of one byte c
\* exactly when lo <= c <= hi, its negation [^lo-hi] exactly when c is
\* outside lo..hi, and neither matches the empty text, whose only byte is
\* the terminator.
C13_RangeClassExact ==
    (pc # "init" /\ Len(pattern) >= 5 /\ At(pattern, 0) = LBRACKET
        /\ At(pattern, Len(pattern) - 3) = HYPHEN) =>
        \A c \in RangeCases :
            (c.lo <= c.hi /\ pattern = c.pat) =>
                /\ ret = 1
                /\ (pc = "matched" /\ Len(text) = 1) =>
                      (m # NULL <=> (c.neg # (c.lo <= text[1] /\ text[1] <= c.hi)))
                /\ (pc = "matched" /\ text = <<>>) => m = NULL

\* what holds of C13 for the classes whose ends are ASCII bytes
Ascii_RangeClassExact ==
    (\A k \in 1..Len(pattern) : pattern[k] < 128) => C13_RangeClassExact

(***************************************************************************)
(* C14: the terminator is never consumed.                                  *)
(***************************************************************************)
\* the node accepts the terminator byte when matchone is asked
TakesNul(n) == matchone(nodes[n], buffer, 0)

\* C14: the match ends inside the text, and from every node of the program
\* and every position of the text matchpattern ends between that position
\* and the end of the text, a run of the node's atom stops at the end of the
\* text at the latest, and no atom is matched at the end of the text.
C14_TerminatorNeverConsumed ==
    Matched =>
        /\ m # NULL => mend <= Len(text)
        /\ Len(text) < TRE_MAX_NODES - 2 =>
              \A n \in 0..(node_j - 1) : \A p \in 0..Len(text) :
                  /\ matchpattern(Rx, text, n, p) \in {NULL} \cup (p..Len(text))
                  /\ Consume(Rx, text, n, p, TRE_MAXPLUS).text <= Len(text)
                  /\ ~AtomAt(Rx, text, n, Len(text))

\* a negated atom, which accepts the terminator byte, has matched every byte
\* of a text and is stopped by its end
C14_Witness ==
    /\ Matched
    /\ Len(text) > 0
    /\ \E n \in 0..(node_j - 1) :
          /\ nodes[n].type \in {"NCLASS", "NDIGIT", "NALPHA", "NSPACE", "DOT"}
          /\ TakesNul(n)
          /\ Consume(Rx, text, n, 0, TRE_MAXPLUS).text = Len(text)

(***************************************************************************)
(* C15: escapes and classes that the compiler has to reject.               *)
(***************************************************************************)
\* an escape at top level whose \ is the last character of the pattern
DanglingEscape(p) ==
    LET toks == Tokens(p)
    IN  /\ toks # <<>>
        /\ At(p, toks[Len(toks)].lo) = Code["\\"]
        /\ toks[Len(toks)].hi > Len(p)

\* a class that no ] closes, also the class that ends in a \ with nothing
\* after it
UnterminatedClass(p) ==
    LET toks == Tokens(p)
    IN  /\ toks # <<>>
        /\ At(p, toks[Len(toks)].lo) = Code["["]
        /\ toks[Len(toks)].hi > Len(p)

\* a class that starts with a range x-y whose start byte x is greater than
\* its end byte y
InvertedRange(p) ==
    LET toks == Tokens(p)
    IN  \E k \in 1..Len(toks) :
            /\ At(p, toks[k].lo) = Code["["]
            /\ LET q == IF At(p, toks[k].lo + 1) = Code["^"]
                        THEN toks[k].lo + 2 ELSE toks[k].lo + 1
               IN  /\ At(p, q) \notin {0, Code["\\"], Code["]"]}
                   /\ At(p, q + 1) = Code["-"]
                   /\ At(p, q + 2) \notin {0, Code["\\"], Code["]"]}
                   /\ At(p, q) > At(p, q + 2)

\* C15: compile fails for a pattern with a dangling escape, an unterminated
\* class or a class range whose start is greater than its end.
C15_BrokenPatternFails ==
    (pc # "init" /\ (DanglingEscape(pattern) \/ UnterminatedClass(pattern)
                     \/ InvertedRange(pattern)))
        => ret = 0

\* what holds of C15 for the ASCII patterns that fit the node array
WithinCapacity_BrokenPatternFails ==
    (FitsNodes(pattern) /\ \A k \in 1..Len(pattern) : pattern[k] < 128)
        => C15_BrokenPatternFails

\* the three kinds of broken pattern are rejected
BrokenPatternsRejected ==
    (pc # "init" /\ pattern \in {Str(<<"a", "\\">>), Str(<<"[", "a", "\\">>),
                                 Str(<<"[", "a", "b">>), RangeClass(Code["c"], Code["a"], FALSE)})
        => (ret = 0 /\ (DanglingEscape(pattern) \/ UnterminatedClass(pattern)
                        \/ InvertedRange(pattern)))

(***************************************************************************)
(* C16: the empty pattern.                                                 *)
(***************************************************************************)
\* C16: compile fails for the empty pattern, and a successful compile leaves
\* a program of at least one node before the sentinel.
C16_EmptyPatternFails ==
    pc # "init" =>
        /\ pattern = <<>> => ret = 0
        /\ ret = 1 => (node_j >= 1 /\ nodes[0].type # "NONE")

\* the empty pattern was handed to tre_compile and refused, the storage
\* left as it was
C16_Witness ==
    /\ pc = "compiled"
    /\ pattern = <<>>
    /\ ret = 0
    /\ nodes = Storage(junk).nodes

(***************************************************************************)
(* C19, C20: the shape of a compiled program.                              *)
(***************************************************************************)
AtomTypes ==
    {"DOT", "CHAR", "CLASS", "NCLASS", "DIGIT", "NDIGIT", "ALPHA", "NALPHA",
     "SPACE", "NSPACE"}

\* C19: in a successfully compiled program every quantifier node has a node
\* before it, and that node is an atom: not a quantifier, not an anchor.
C19_QuantifierFollowsAtom ==
    (pc # "init" /\ ret = 1) =>
        \A n \in 0..(node_j - 1) :
            nodes[n].type \in GreedyTypes \cup LazyTypes =>
                n > 0 /\ nodes[n - 1].type \in AtomTypes

\* a*?b compiles to a, lazy star, b: the ? after the star made it lazy and
\* is no quantifier of its own
C19_Witness ==
    /\ pc # "init"
    /\ ret = 1
    /\ pattern = Str(<<"a", "*", "?", "b">>)
    /\ nodes[0].type = "CHAR" /\ nodes[1].type = "LSTAR" /\ nodes[2].type = "CHAR"
    /\ node_j = 3

\* C20: in a successfully compiled program no node past index 0 is a
\* begin-anchor.
C20_BeginOnlyFirst ==
    (pc # "init" /\ ret = 1) =>
        \A n \in 1..(node_j - 1) : nodes[n].type # "BEGIN"

(***************************************************************************)
(* C17, C18: two storages, and two calls on one compiled pattern.          *)
(***************************************************************************)
\* the calls that have returned
Returned == {th \in Threads : calls[th].state = "done"}

C18_CallsIndependent ==
    /\ \A th \in Returned :
          tre_match(CompiledOn(pattern, junk), calls[th].text)
              = [m |-> calls[th].m, mend |-> calls[th].mend]
    /\ Returned # {} =>
          (nodes = CompiledOn(pattern, junk).nodes /\ buffer = CompiledOn(pattern, junk).buf)

\* two calls that ran at the same time on different texts, one after a scan
\* of several steps, have both returned
C18_Witness ==
    /\ Returned = Threads
    /\ \A th \in Threads : calls[th].par
    /\ calls[1].text # calls[2].text
    /\ calls[1].m # NULL /\ calls[1].m > 0
    /\ calls[2].m # calls[1].m

(***************************************************************************)
(* C21, C22: the node array after a successful compile.                    *)
(***************************************************************************)
\* C21: tre_compile never leaves the node index at or past TRE_MAX_NODES,
\* and after a successful compile of n nodes n + 1 <= TRE_MAX_NODES, the
\* node at index n is the sentinel and no node below n is the sentinel.
\* The node index only grows and every store of the compiler is at the
\* node index, so no store is at an index of TRE_MAX_NODES or more.
C21_OneSentinelInsideArray ==
    pc # "init" =>
        /\ node_j < TRE_MAX_NODES
        /\ ret = 1 =>
              /\ node_j + 1 <= TRE_MAX_NODES
              /\ nodes[node_j].type = "NONE"
              /\ \A k \in 0..(node_j - 1) : nodes[k].type \notin {"NONE", "JUNK"}

\* a pattern that fills the node array, compiled into storage that held
\* junk: the sentinel is in the last node
C21_Witness ==
    /\ pc # "init"
    /\ ret = 1
    /\ junk # 0
    /\ node_j = TRE_MAX_NODES - 1
    /\ nodes[TRE_MAX_NODES - 1].type = "NONE"
    /\ nodes[TRE_MAX_NODES - 2].type = "CHAR"

\* the bounds a well-formed brace group writes, its { at lo: {m} is (m, m),
\* {m,} is (m, TRE_MAXQUANT), {m,n} is (m, n)
BraceBounds(p, lo) ==
    LET close == BraceClose(p, lo + 1)
        body == SubSeq(p, lo + 2, close)
        commas == {k \in 1..Len(body) : body[k] = Code[","]}
        lower == IF commas = {} THEN body ELSE SubSeq(body, 1, SetMin(commas) - 1)
        upper == IF commas = {} THEN <<>>
                 ELSE SubSeq(body, SetMin(commas) + 1, Len(body))
    IN  [min |-> Decimal(lower),
         max |-> IF commas = {} THEN Decimal(lower)
                 ELSE IF upper = <<>> THEN TRE_MAXQUANT
                 ELSE Decimal(upper)]

\* the tokens of the pattern that are well-formed brace groups, for a
\* program that has one node per token
GoodBraces ==
    LET toks == Tokens(pattern)
    IN  IF node_j # Len(toks) THEN {}
        ELSE {k \in 1..Len(toks) :
                 /\ toks[k].kind = "quant"
                 /\ At(pattern, toks[k].lo) = LBRACE
                 /\ ~BadBraceAt(pattern, toks[k].lo)}

\* C22: in a successfully compiled program every bounded-quantifier node
\* has 0 <= min <= max <= TRE_MAXQUANT; the node of a well-formed brace
\* group holds the bounds written in the pattern; and the matcher runs the
\* quantifier with exactly these two numbers, whatever the classes of the
\* pattern put into the buffer.
C22_BoundsInNode ==
    (pc # "init" /\ ret = 1) =>
        /\ \A k \in 0..(node_j - 1) :
              nodes[k].type \in {"QUANT", "LQUANT"} =>
                  /\ 0 <= nodes[k].mn[0]
                  /\ nodes[k].mn[0] <= nodes[k].mn[1]
                  /\ nodes[k].mn[1] <= TRE_MAXQUANT
        /\ \A k \in GoodBraces :
              LET b == BraceBounds(pattern, Tokens(pattern)[k].lo)
                  q == nodes[k - 1]
              IN  /\ q.type \in {"QUANT", "LQUANT"}
                  /\ q.mn[0] = b.min /\ q.mn[1] = b.max
                  /\ (pc = "matched" /\ k >= 2) =>
                        \A p \in 0..Len(text) :
                            matchpattern(Rx, text, k - 2, p)
                                = IF q.type = "QUANT"
                                  THEN matchquant(Rx, text, k - 2, p, b.min, b.max)
                                  ELSE matchquant_lazy(Rx, text, k - 2, p, b.min, b.max)

\* [0-9]{2,3} on x42y: the class is in the buffer, the bounds 2 and 3 are in
\* the node, and the two digits are matched
C22_Witness ==
    /\ Matched
    /\ pattern = Str(<<"[", "0", "-", "9", "]", "{", "2", ",", "3", "}">>)
    /\ GoodBraces = {2}
    /\ nodes[1].mn[0] = 2 /\ nodes[1].mn[1] = 3
    /\ buffer[0] = DIGIT_0 /\ buffer[2] = DIGIT_9
    /\ text = Str(<<"x", "4", "2", "y">>)
    /\ m = 1 /\ mend = 3

(***************************************************************************)
(* C23: the stores into the buffer.                                        *)
(***************************************************************************)
\* the class tokens of a pattern
ClassTokens(p) ==
    {k \in 1..Len(Tokens(p)) : At(p, Tokens(p)[k].lo) = LBRACKET}

\* the classes of the pattern are closed and hold plain characters only: no
\* escape and no range
PlainClasses(p) ==
    \A k \in ClassTokens(p) :
        /\ Tokens(p)[k].hi <= Len(p)
        /\ \A q \in (Tokens(p)[k].lo + 1)..(Tokens(p)[k].hi - 2) :
              At(p, q) \notin {BACKSLASH, HYPHEN}

\* the bytes that the plain classes of indices lo .. Len(toks) need in the
\* buffer: the characters of each, without the brackets and the ^ of a
\* negated class, and a terminator for each
RECURSIVE BufferNeedFrom(_, _)
BufferNeedFrom(p, k) ==
    IF k > Len(Tokens(p)) THEN 0
    ELSE LET tok == Tokens(p)[k]
             neg == IF At(p, tok.lo + 1) = CARET THEN 1 ELSE 0
         IN  (IF At(p, tok.lo) = LBRACKET THEN tok.hi - tok.lo - 2 - neg + 1 ELSE 0)
             + BufferNeedFrom(p, k + 1)

BufferNeed(p) == BufferNeedFrom(p, 1)

\* C23: no store of tre_compile into the buffer is at an index of
\* TRE_MAX_BUFLEN or more, the terminator of a class included, and compile
\* fails for a pattern whose classes and their terminators need more than
\* TRE_MAX_BUFLEN bytes.
C23_BufferWritesInBounds ==
    pc # "init" =>
        /\ ~oob
        /\ (PlainClasses(pattern) /\ BufferNeed(pattern) > TRE_MAX_BUFLEN) => ret = 0

\* what holds: compile fails when the classes need more than the buffer and
\* each of them has a character to store
NonEmptyClassOverflowFails ==
    (pc # "init" /\ PlainClasses(pattern) /\ BufferNeed(pattern) > TRE_MAX_BUFLEN
        /\ \A k \in ClassTokens(pattern) :
              At(pattern, Tokens(pattern)[k].hi - 2) \notin {LBRACKET, CARET})
        => (ret = 0 /\ ~oob)

(***************************************************************************)
(* C24: what a class accepts.                                              *)
(***************************************************************************)
\* the bytes a shorthand letter of a class stands for, of the two letters
\* d and s
ShorthandBytes(letter) ==
    IF letter = LOWER_D THEN DIGIT_0..DIGIT_9
    ELSE {BLANK, TAB, NEWLINE, RETURN, FORMFEED, VTAB}

\* the byte b is one of the literal bytes of the class case c, lies in one
\* of its ranges or is a byte of one of its shorthand letters
ClassAccepts(c, b) ==
    \/ b \in c.lits
    \/ \E r \in c.ranges : r[1] <= b /\ b <= r[2]
    \/ \E letter \in c.metas : b \in ShorthandBytes(letter)

\* C24: a class that compiles accepts a byte exactly when the byte is one
\* of the literal bytes written in the class, lies in one of its ranges or
\* satisfies one of its shorthand letters; a dash written as a literal is
\* read back as a literal.
C24_ClassDecodedAsEncoded ==
    \A c \in ClassCases :
        (Matched /\ pattern = c.pat /\ Len(text) = 1) =>
            ((m # NULL) <=> ClassAccepts(c, text[1]))

\* what holds: the classes whose literal dash comes last or first, or after
\* a shorthand, are read back as they were written
DashAtEdge_ClassDecodedAsEncoded ==
    \A c \in ClassCases :
        (Matched /\ pattern = c.pat /\ Len(text) = 1
            /\ c.pat \notin {Str(<<"[", "a", "-", "\\", "d", "]">>),
                             Str(<<"[", "x", "\\", "-", "z", "]">>)}) =>
            ((m # NULL) <=> ClassAccepts(c, text[1]))

(***************************************************************************)
(* C25: the empty match at the end of the text.                            *)
(***************************************************************************)
\* C25: when the program of a pattern without a leading begin-anchor
\* matches at no offset below len(T) and matches the empty string at
\* offset len(T), tre_match returns the empty match s = e = len(T).
C25_EmptyMatchAtEnd ==
    (Matched /\ nodes[0].type # "BEGIN"
        /\ (\A p \in 0..(Len(text) - 1) : matchpattern(Rx, text, 0, p) = NULL)
        /\ matchpattern(Rx, text, 0, Len(text)) = Len(text))
        => (m = Len(text) /\ mend = Len(text))

\* a*$ on ab: the scan fails at 0 and at 1 and returns the empty match at 2
C25_Witness ==
    /\ Matched
    /\ pattern = Str(<<"a", "*", "$">>)
    /\ text = Str(<<"a", "b">>)
    /\ matchpattern(Rx, text, 0, 0) = NULL
    /\ matchpattern(Rx, text, 0, 1) = NULL
    /\ m = 2 /\ mend = 2

(***************************************************************************)
(* C27: a copy of a compiled pattern.                                      *)
(***************************************************************************)
\* C27: tre_match on a copy of a successfully compiled pattern returns
\* what tre_match returns on the pattern compiled where it was compiled,
\* for every text, also after another pattern has been compiled into the
\* storage the copy was taken from.
C27_CopySelfContained ==
    pc = "copymatched" =>
        tre_match(CompiledOn(other.pattern, junk), text) = [m |-> m, mend |-> mend]

\* what holds: a copy matches as the original does while the original is
\* as tre_compile left it, and a copy without a class node matches as the
\* original did whatever has become of the original
LiveOriginal_CopyMatchesAsOriginal ==
    (pc = "copymatched"
        /\ \/ pattern = other.pattern
           \/ \A k \in DOMAIN other.nodes : other.nodes[k].type \notin {"CLASS", "NCLASS"})
        => tre_match(CompiledOn(other.pattern, junk), text) = [m |-> m, mend |-> mend]

(***************************************************************************)
(* C30: bytes above 127.                                                   *)
(***************************************************************************)
\* C30: a literal atom compiled from the byte b matches a text of one byte
\* c exactly when b = c, the class [b] likewise, and the range class
\* [lo-hi] exactly when lo <= c <= hi as unsigned bytes, for the bytes
\* 128..255 as for the others.
C30_ByteExact ==
    (Matched /\ Len(text) = 1) =>
        /\ \A b \in LiteralBytes :
              pattern \in {<<b>>, Str(<<"[">>) \o <<b>> \o Str(<<"]">>)} =>
                  ((m # NULL) <=> (text[1] = b))
        /\ \A c \in RangeCases :
              (pattern = c.pat /\ ~c.neg) =>
                  ((m # NULL) <=> (c.lo <= text[1] /\ text[1] <= c.hi))

\* what holds: the engine is exact when the pattern bytes and the text byte
\* are below 128
Ascii_ByteExact ==
    ((\A k \in 1..Len(pattern) : pattern[k] < 128)
        /\ (\A k \in 1..Len(text) : text[k] < 128)) => C30_ByteExact

(***************************************************************************)
(* C29: greedy and lazy quantifiers find the same matches.                 *)
(***************************************************************************)
\* the characters of the tokens k .. Len(toks) of the pattern, every
\* quantifier written in its lazy form (lazy = TRUE) or in its greedy form
RECURSIVE RequantifiedFrom(_, _, _, _)
RequantifiedFrom(p, toks, k, lazy) ==
    IF k > Len(toks) THEN <<>>
    ELSE LET tok == toks[k]
             hi == IF tok.hi > Len(p) THEN Len(p) ELSE tok.hi
             islazy == tok.kind = "quant" /\ hi - tok.lo >= 2 /\ At(p, hi - 1) = QUESTION
             base == SubSeq(p, tok.lo + 1, IF islazy THEN hi - 1 ELSE hi)
         IN  base \o (IF tok.kind = "quant" /\ lazy THEN <<QUESTION>> ELSE <<>>)
                  \o RequantifiedFrom(p, toks, k + 1, lazy)

Requantified(p, lazy) == RequantifiedFrom(p, Tokens(p), 1, lazy)

HasQuantifier(p) ==
    \E k \in 1..Len(p) : At(p, k - 1) \in {ASTERISK, PLUS_SIGN, QUESTION, LBRACE}

\* the start that tre_match returns for the text on the pattern p compiled
\* into storage like the caller's
StartOf(p) ==
    LET st == tre_compile(p, Storage(junk).nodes, Storage(junk).buf)
    IN  IF st.err THEN NULL - 1
        ELSE tre_match([nodes |-> st.nodes, buf |-> st.buf], text).m

\* C29: the pattern with every quantifier made lazy and the pattern with
\* every quantifier made greedy compile as the pattern does, and tre_match
\* finds a match with both exactly when it finds one with the pattern, at
\* the same start; and at every text position the greedy and the lazy
\* search of a quantified atom succeed or fail together, namely when one
\* of the counts min .. min(max, run length) lets the rest match.
C29_LazyGreedySameStart ==
    (Matched /\ HasQuantifier(pattern)) =>
        /\ StartOf(Requantified(pattern, TRUE)) = m
        /\ StartOf(Requantified(pattern, FALSE)) = m
        /\ \A n \in QuantifiedAtoms(GreedyTypes \cup LazyTypes) :
              \A p \in 0..Len(text) :
                  LET lo == QMin(nodes[n + 1])
                      hi == QMax(nodes[n + 1])
                  IN  /\ (matchquant(Rx, text, n, p, lo, hi) # NULL)
                            <=> (GoodCounts(n, p) # {})
                      /\ (matchquant_lazy(Rx, text, n, p, lo, hi) # NULL)
                            <=> (GoodCounts(n, p) # {})

\* a+ on aab: the greedy pattern matches 0..2, its lazy form a+? matches
\* 0..1, the same start
C29_Witness ==
    /\ Matched
    /\ pattern = Str(<<"a", "+">>)
    /\ text = Str(<<"a", "a", "b">>)
    /\ m = 0 /\ mend = 2
    /\ Requantified(pattern, TRUE) = Str(<<"a", "+", "?">>)
    /\ tre_match(CompiledOn(Requantified(pattern, TRUE), junk), text)
          = [m |-> 0, mend |-> 1]

(***************************************************************************)
(* C26: the ceilings of the repetition counts.                             *)
(***************************************************************************)
\* C26: a quantified atom takes at most its greatest count in a match
\* attempt: 1 for ?, n for {m,n}, TRE_MAXQUANT for {m,}, TRE_MAXPLUS for *
\* and +.  On a run of k letters the pattern ^aQ$ matches exactly when k
\* lies between the least and the greatest count of Q, so ^a*$ fails on
\* TRE_MAXPLUS + 1 letters and ^a{2,}$ on TRE_MAXQUANT + 1; the pattern
\* aQ$ without the begin-anchor matches the last letters of a longer run,
\* as many as the greatest count; and the first loop of matchquant, started
\* at the first letter, stops at the greatest count.
C26_CeilingsEnforced ==
    \A c \in RunCases :
        (Matched /\ pattern = c.pat) =>
            LET k == Len(text)
                atom == IF c.anch THEN 1 ELSE 0
            IN  /\ nodes[atom + 1].type \in GreedyTypes \cup LazyTypes
                /\ QMin(nodes[atom + 1]) = c.min
                /\ QMax(nodes[atom + 1]) = c.max
                /\ c.anch => ((m # NULL) <=> (c.min <= k /\ k <= c.max))
                /\ (c.anch /\ m # NULL) => (m = 0 /\ mend = k)
                /\ ~c.anch => ((m # NULL) <=> (c.min <= k))
                /\ (~c.anch /\ m # NULL) =>
                      (mend = k /\ m = IF k > c.max THEN k - c.max ELSE 0)
                /\ Consume(Rx, text, atom, 0, c.max).text = IF k > c.max THEN c.max ELSE k

\* ^a*$ on a run of TRE_MAXPLUS + 1 letters: no match
C26_Witness ==
    /\ Matched
    /\ pattern = Str(<<"^", "a", "*", "$">>)
    /\ Len(text) = TRE_MAXPLUS + 1
    /\ m = NULL
    /\ Consume(Rx, text, 1, 0, TRE_MAXPLUS).text = TRE_MAXPLUS

Wide_MatchTerminates ==
    (run.state = "run" /\ run.wide) ~> (run.state = "returned")

\* what holds: the frames on the stack are of programs that start at least
\* two nodes after the one of the frame below, so the stack is no deeper
\* than half the program; the scan position is inside the text or at its
\* terminator; and in the builds whose ptrdiff_t is wider than unsigned no
\* byte outside the text is read, the text position of a frame is never
\* more than one before the text, and the call returns what tre_match
\* returns
RunInvariant ==
    /\ \A k \in 2..Len(run.stack) : run.stack[k].n >= run.stack[k - 1].n + 2
    /\ \A k \in 1..Len(run.stack) : run.stack[k].n <= node_j
    /\ run.scan <= Len(text)
    /\ run.wide =>
          /\ run.state # "fault"
          /\ \A k \in 1..Len(run.stack) : run.stack[k].p >= 0 - 1
          /\ run.state = "returned" =>
                LET r == tre_match(Rx, text)
                IN  /\ run.m = (IF r.m = NULL THEN NullPtr ELSE Ptr(r.m))
                    /\ run.mend = (IF r.mend = NULL THEN NullPtr ELSE Ptr(r.mend))

====
